---- MODULE Spec2Model ----
(***************************************************************************)
(* Query-parameter normalization and filter construction of the orders     *)
(* and customers list endpoints (utils/parseQueryParams.ts and the         *)
(* controllers that consume it).                                           *)
(*                                                                         *)
(* Strings are sequences of one-character strings, so that trimming,       *)
(* regular-expression tests, escaping and numeric parsing are computed     *)
(* character by character as the JavaScript built-ins compute them.        *)
(***************************************************************************)
EXTENDS Integers, Sequences, FiniteSets, TLC

(***************************************************************************)
(* Bounds of the model.                                                    *)
(***************************************************************************)
MaxNumLen == 3       \* longest numeric text fed to the scalar parsers
MaxSearchLen == 3    \* longest search text fed to sanitizeSearch
MaxArrayLen == 2     \* longest array given for one query key
MaxPresent == 2      \* most query keys present in one raw bag
MaxDefaultLimit == 3 \* largest defaultLimit tried with normalizeLimit
MaxDepth == 2        \* deepest nesting of the values given to sanitizeObject
MaxMatching == 12    \* most documents the database holds for one filter

(***************************************************************************)
(* Characters and character classes of the regular expressions used.       *)
(***************************************************************************)
Letters ==
    {"a","b","c","d","e","f","g","h","i","j","k","l","m",
     "n","o","p","q","r","s","t","u","v","w","x","y","z",
     "A","B","C","D","E","F","G","H","I","J","K","L","M",
     "N","O","P","Q","R","S","T","U","V","W","X","Y","Z"}
Digits == {"0","1","2","3","4","5","6","7","8","9"}
WhiteSpace == {" ", "\t", "\n"}                       \* \s and String.trim
WordChars == Letters \cup Digits \cup {"_"}           \* \w
SearchAllowed ==                                      \* [a-zA-Z0-9\s\-_.+%]
    Letters \cup Digits \cup WhiteSpace \cup {"-", "_", ".", "+", "%"}
\* RegexMeta with the hyphen escaped as well
RegexMeta_WithHyphen ==
    {".", "*", "+", "?", "^", "$", "{", "}", "(", ")", "|", "[", "]", "\\", "-"}
RegexMeta ==                                          \* [.*+?^${}()|[\]\\]
    {".", "*", "+", "?", "^", "$", "{", "}", "(", ")", "|", "[", "]", "\\"}
StatusAllowed == Letters \cup Digits \cup {"_", "-"}  \* [a-zA-Z0-9_-]

DigitValue ==
    "0" :> 0 @@ "1" :> 1 @@ "2" :> 2 @@ "3" :> 3 @@ "4" :> 4 @@
    "5" :> 5 @@ "6" :> 6 @@ "7" :> 7 @@ "8" :> 8 @@ "9" :> 9

(***************************************************************************)
(* String built-ins.                                                       *)
(***************************************************************************)
RECURSIVE TrimStart(_)
TrimStart(s) ==
    IF s # <<>> /\ Head(s) \in WhiteSpace THEN TrimStart(Tail(s)) ELSE s

RECURSIVE TrimEnd(_)
TrimEnd(s) ==
    IF s # <<>> /\ s[Len(s)] \in WhiteSpace
    THEN TrimEnd(SubSeq(s, 1, Len(s) - 1))
    ELSE s

Trim(s) == TrimEnd(TrimStart(s))

AllIn(s, class) == \A i \in 1..Len(s) : s[i] \in class
SomeOutside(s, class) == \E i \in 1..Len(s) : s[i] \notin class

RECURSIVE DigitPrefixLen(_)
DigitPrefixLen(s) ==
    IF s # <<>> /\ Head(s) \in Digits THEN 1 + DigitPrefixLen(Tail(s)) ELSE 0

RECURSIVE DecValue(_)
DecValue(ds) ==
    IF ds = <<>> THEN 0
    ELSE 10 * DecValue(SubSeq(ds, 1, Len(ds) - 1)) + DigitValue[ds[Len(ds)]]

RECURSIVE StripTrailingZeros(_)
StripTrailingZeros(ds) ==
    IF ds # <<>> /\ ds[Len(ds)] = "0"
    THEN StripTrailingZeros(SubSeq(ds, 1, Len(ds) - 1))
    ELSE ds

(***************************************************************************)
(* JavaScript numbers.  A number is NaN or a signed decimal: neg, the      *)
(* integer part int and the significant fraction digits frac.  Zero is     *)
(* kept unsigned (-0 and 0 agree in every comparison the code makes).      *)
(***************************************************************************)
NaN == [nan |-> TRUE, neg |-> FALSE, int |-> 0, frac |-> <<>>]
Num(neg, int, frac) ==
    [nan |-> FALSE, neg |-> neg /\ (int # 0 \/ frac # <<>>),
     int |-> int, frac |-> frac]
IntNum(i) == IF i < 0 THEN Num(TRUE, 0 - i, <<>>) ELSE Num(FALSE, i, <<>>)

NumberIsNaN(n) == n.nan
NumberIsFinite(n) == ~n.nan
NumberIsInteger(n) == ~n.nan /\ n.frac = <<>>
IsNegative(n) == ~n.nan /\ n.neg                       \* n < 0
IsNonPositive(n) ==                                    \* n <= 0
    ~n.nan /\ (n.neg \/ (n.int = 0 /\ n.frac = <<>>))
IntegerValue(n) == IF n.neg THEN 0 - n.int ELSE n.int  \* of an integer n

(***************************************************************************)
(* Number(text): surrounding white space is dropped, the empty text is 0,  *)
(* then an optional sign and a decimal literal; anything else is NaN.      *)
(* Exponents, radix prefixes and "Infinity" need the letters e, x, o, b,   *)
(* I, which the numeric texts of this model never contain.                 *)
(***************************************************************************)
ToNumber(s) ==
    LET t == Trim(s)
        signed == t # <<>> /\ Head(t) \in {"+", "-"}
        neg == t # <<>> /\ Head(t) = "-"
        body == IF signed THEN Tail(t) ELSE t
        k == DigitPrefixLen(body)
        intPart == SubSeq(body, 1, k)
        rest == SubSeq(body, k + 1, Len(body))
        hasDot == rest # <<>> /\ Head(rest) = "."
        fracPart == IF hasDot THEN Tail(rest) ELSE <<>>
        valid == \/ rest = <<>> /\ k > 0
                 \/ hasDot /\ AllIn(fracPart, Digits) /\ (k > 0 \/ fracPart # <<>>)
    IN  IF t = <<>> THEN Num(FALSE, 0, <<>>)
        ELSE IF ~valid THEN NaN
        ELSE Num(neg, DecValue(intPart), StripTrailingZeros(fracPart))

(***************************************************************************)
(* parseInt(text, 10): leading white space is dropped, then an optional    *)
(* sign and the longest run of digits; no digit gives NaN.                 *)
(***************************************************************************)
ParseInt(s) ==
    LET t == TrimStart(s)
        signed == t # <<>> /\ Head(t) \in {"+", "-"}
        neg == t # <<>> /\ Head(t) = "-"
        body == IF signed THEN Tail(t) ELSE t
        k == DigitPrefixLen(body)
    IN  IF k = 0 THEN NaN
        ELSE Num(neg, DecValue(SubSeq(body, 1, k)), <<>>)

(***************************************************************************)
(* JavaScript values of the query layer: undefined, a string, an array of  *)
(* strings, a number, a Date (milliseconds since 2024-01-01T00:00Z), an    *)
(* object (a function from its keys to values), or a value of another      *)
(* type.  A call returns Ok(value) or throws.                              *)
(***************************************************************************)
Undefined == [kind |-> "undefined", items |-> <<>>]
Str(s) == [kind |-> "string", items |-> <<s>>]
Arr(ss) == [kind |-> "array", items |-> ss]
NumberVal(n) == [kind |-> "number", items |-> <<n>>]
DateVal(t) == [kind |-> "date", items |-> <<t>>]
Obj(o) == [kind |-> "object", items |-> <<o>>]
List(vs) == [kind |-> "list", items |-> vs]            \* an array of any values
Null == [kind |-> "null", items |-> <<>>]
Other == [kind |-> "other", items |-> <<>>]

IsDefined(v) == v.kind # "undefined"
ValueOf(v) == v.items[1]
Falsy(v) ==                                            \* !value
    v.kind = "undefined" \/ (v.kind = "string" /\ ValueOf(v) = <<>>)

TypeOf(v) ==                                           \* typeof value
    IF v.kind \in {"undefined", "string", "number"} THEN v.kind ELSE "object"

Ok(v) == [ok |-> TRUE, val |-> v]
Throw(class, message) == [ok |-> FALSE, class |-> class, message |-> message]
Then(r, F(_)) == IF r.ok THEN F(r.val) ELSE r

MsgArray == "Parameter must not be an array"
MsgPositiveInt == "Parameter must be a positive integer"
MsgNonNegative == "Parameter must be a non-negative number"
MsgDate == "Parameter must be a valid date"
MsgSortOrder == "sortOrder must be asc or desc"
MsgSearch == "Search query contains invalid characters"

(***************************************************************************)
(* Texts the code names, and the date texts of the model.                  *)
(***************************************************************************)
TxtAsc == <<"a", "s", "c">>
TxtDesc == <<"d", "e", "s", "c">>
TxtCreatedAt == <<"c", "r", "e", "a", "t", "e", "d", "A", "t">>
TxtDateOnly == <<"2", "0", "2", "4", "-", "0", "1", "-", "0", "5">>
TxtDateLocal == <<"2", "0", "2", "4", "-", "0", "1", "-", "0", "5", "T", "1", "0", ":", "3", "0">>
TxtDateUtc == <<"2", "0", "2", "4", "-", "0", "1", "-", "0", "5", "T", "2", "2", ":", "0", "0", "Z">>
TxtDateBad == <<"2", "0", "2", "4", "-", "1", "3", "-", "4", "5">>
TxtEmpty == <<>>
Txt0 == <<"0">>
Txt1 == <<"1">>
Txt2 == <<"2">>
Txt3 == <<"3">>
Txt5 == <<"5">>
Txt10 == <<"1", "0">>
Txt12 == <<"1", "2">>
Txt999 == <<"9", "9", "9">>
TxtMinus1 == <<"-", "1">>
TxtAbc == <<"a", "b", "c">>
TxtName == <<"n", "a", "m", "e">>
TxtPassword == <<"p", "a", "s", "s", "w", "o", "r", "d">>
TxtUp == <<"u", "p">>
TxtAscUpper == <<"A", "S", "C">>
TxtDescSpace == <<"d", "e", "s", "c", " ">>
TxtNew == <<"n", "e", "w">>
TxtA == <<"a">>
TxtB == <<"b">>
TxtDotted == <<"a", ".", "b">>
TxtOBrien == <<"O", "'", "B", "r", "i", "e", "n">>
TxtOneTwo == <<"1", " ", "2">>
TxtBlank == <<" ">>

(***************************************************************************)
(* Dates.  timezoneOffset is the process time zone in minutes east of UTC. *)
(* new Date(text): a date-only ISO text is UTC midnight, a date-time text  *)
(* without offset is local time, a text ending in Z is UTC; a text that is *)
(* no date gives an invalid Date.  Only the date texts above are parsed.   *)
(***************************************************************************)
VARIABLES timezoneOffset, call, pc, outcome, records, file, cleanPath, disk
vars == <<timezoneOffset, call, pc, outcome, records, file, cleanPath, disk>>

MsPerMinute == 60 * 1000
MsPerDay == 24 * 60 * MsPerMinute
InvalidDate == [valid |-> FALSE, ms |-> 0]
ValidDate(ms) == [valid |-> TRUE, ms |-> ms]

NewDate(s) ==
    CASE s = TxtDateOnly  -> ValidDate(4 * MsPerDay)
      [] s = TxtDateLocal ->
            ValidDate(4 * MsPerDay + (10 * 60 + 30) * MsPerMinute
                      - timezoneOffset * MsPerMinute)
      [] s = TxtDateUtc   -> ValidDate(4 * MsPerDay + 22 * 60 * MsPerMinute)
      [] s = TxtDateBad   -> InvalidDate

LocalMs(d) == d.ms + timezoneOffset * MsPerMinute
LocalDay(d) == LocalMs(d) \div MsPerDay
LocalTimeOfDay(d) == LocalMs(d) % MsPerDay
TimeOfDay(h, m, sec, ms) == ((h * 60 + m) * 60 + sec) * 1000 + ms

\* Date.prototype.setHours(h, m, sec, ms): same local day, given local time.
SetHours(d, h, m, sec, ms) ==
    ValidDate(LocalDay(d) * MsPerDay + TimeOfDay(h, m, sec, ms)
              - timezoneOffset * MsPerMinute)

(***************************************************************************)
(* utils/parseQueryParams.ts: single-value extraction and scalar parsers.  *)
(***************************************************************************)
\* getSingleString picking the first of several values
getSingleString_First(value) ==
    IF value.kind = "array"
    THEN IF Len(value.items) = 0 THEN Ok(Undefined)
         ELSE Ok(Str(value.items[1]))
    ELSE Ok(value)

getSingleString(value) ==
    IF value.kind = "array"
    THEN IF Len(value.items) = 0 THEN Ok(Undefined)
         ELSE IF Len(value.items) > 1 THEN Throw("BadRequestError", MsgArray)
         ELSE Ok(Str(value.items[1]))
    ELSE Ok(value)

\* parsePositiveInt without the integer test
parsePositiveInt_AllowFraction(value, defaultValue) ==
    IF Falsy(value) THEN Ok(defaultValue)
    ELSE LET n == ToNumber(ValueOf(value))
         IN  IF NumberIsNaN(n) \/ IsNonPositive(n)
             THEN Throw("BadRequestError", MsgPositiveInt)
             ELSE Ok(NumberVal(n))

\* parsePositiveInt with n < 0 for n <= 0
parsePositiveInt_AllowZero(value, defaultValue) ==
    IF Falsy(value) THEN Ok(defaultValue)
    ELSE LET n == ToNumber(ValueOf(value))
         IN  IF ~NumberIsInteger(n) \/ IsNegative(n)
             THEN Throw("BadRequestError", MsgPositiveInt)
             ELSE Ok(NumberVal(n))

parsePositiveInt(value, defaultValue) ==
    IF Falsy(value) THEN Ok(defaultValue)
    ELSE LET n == ToNumber(ValueOf(value))
         IN  IF ~NumberIsInteger(n) \/ IsNonPositive(n)
             THEN Throw("BadRequestError", MsgPositiveInt)
             ELSE Ok(NumberVal(n))

parseNonNegativeNumber(value) ==
    IF Falsy(value) THEN Ok(Undefined)
    ELSE LET n == ToNumber(ValueOf(value))
         IN  IF ~NumberIsFinite(n) \/ IsNegative(n)
             THEN Throw("BadRequestError", MsgNonNegative)
             ELSE Ok(NumberVal(n))

parseDate(value) ==
    IF Falsy(value) THEN Ok(Undefined)
    ELSE LET d == NewDate(ValueOf(value))
         IN  IF ~d.valid
             THEN Throw("BadRequestError", MsgDate)
             ELSE Ok(DateVal(d))

\* parseSortOrder falling back to the default for an unknown value
parseSortOrder_Lenient(value, defaultValue) ==
    IF Falsy(value) THEN Ok(Str(defaultValue))
    ELSE IF ValueOf(value) # TxtAsc /\ ValueOf(value) # TxtDesc
         THEN Ok(Str(defaultValue))
         ELSE Ok(value)

parseSortOrder(value, defaultValue) ==
    IF Falsy(value) THEN Ok(Str(defaultValue))
    ELSE IF ValueOf(value) # TxtAsc /\ ValueOf(value) # TxtDesc
         THEN Throw("BadRequestError", MsgSortOrder)
         ELSE Ok(value)

\* text.replace(/[.*+?^${}()|[\]\\]/g, '\\$&')
RECURSIVE EscapeRegexMeta(_)
EscapeRegexMeta(s) ==
    IF s = <<>> THEN <<>>
    ELSE (IF Head(s) \in RegexMeta THEN <<"\\", Head(s)>> ELSE <<Head(s)>>)
         \o EscapeRegexMeta(Tail(s))

\* sanitizeSearch without the allow-list test
sanitizeSearch_Unchecked(value) ==
    IF Falsy(value) THEN Ok(Undefined)
    ELSE LET trimmed == Trim(ValueOf(value))
         IN  IF Len(trimmed) = 0 THEN Ok(Undefined)
             ELSE Ok(Str(EscapeRegexMeta(trimmed)))

\* sanitizeSearch working on the untrimmed value
sanitizeSearch_NoTrim(value) ==
    IF Falsy(value) THEN Ok(Undefined)
    ELSE LET trimmed == ValueOf(value)
         IN  IF Len(trimmed) = 0 THEN Ok(Undefined)
             ELSE IF ~AllIn(trimmed, SearchAllowed)
                  THEN Throw("BadRequestError", MsgSearch)
                  ELSE Ok(Str(EscapeRegexMeta(trimmed)))

sanitizeSearch(value) ==
    IF Falsy(value) THEN Ok(Undefined)
    ELSE LET trimmed == Trim(ValueOf(value))
         IN  IF Len(trimmed) = 0 THEN Ok(Undefined)
             ELSE IF ~AllIn(trimmed, SearchAllowed)
                  THEN Throw("BadRequestError", MsgSearch)
                  ELSE Ok(Str(EscapeRegexMeta(trimmed)))

Min(a, b) == IF a <= b THEN a ELSE b
Max(a, b) == IF a >= b THEN a ELSE b

\* normalizeLimit with limitNum < 0 for limitNum <= 0
normalizeLimit_ZeroAllowed(limitQuery, defaultLim) ==
    LET limitStr ==
            IF limitQuery.kind = "string" THEN ValueOf(limitQuery)
            ELSE IF limitQuery.kind = "array" /\ Len(limitQuery.items) > 0
                 THEN limitQuery.items[1]
                 ELSE <<>>
        limitNum == ParseInt(limitStr)
    IN  IF NumberIsNaN(limitNum) \/ IsNegative(limitNum) THEN defaultLim
        ELSE Min(IntegerValue(limitNum), defaultLim)

\* normalizeLimit without the cap
normalizeLimit_Uncapped(limitQuery, defaultLim) ==
    LET limitStr ==
            IF limitQuery.kind = "string" THEN ValueOf(limitQuery)
            ELSE IF limitQuery.kind = "array" /\ Len(limitQuery.items) > 0
                 THEN limitQuery.items[1]
                 ELSE <<>>
        limitNum == ParseInt(limitStr)
    IN  IF NumberIsNaN(limitNum) \/ IsNonPositive(limitNum) THEN defaultLim
        ELSE IntegerValue(limitNum)

normalizeLimit(limitQuery, defaultLim) ==
    LET limitStr ==
            IF limitQuery.kind = "string" THEN ValueOf(limitQuery)
            ELSE IF limitQuery.kind = "array" /\ Len(limitQuery.items) > 0
                 THEN limitQuery.items[1]
                 ELSE <<>>
        limitNum == ParseInt(limitStr)
    IN  IF NumberIsNaN(limitNum) \/ IsNonPositive(limitNum) THEN defaultLim
        ELSE Min(IntegerValue(limitNum), defaultLim)

(***************************************************************************)
(* utils/parseQueryParams.ts: parameter-set normalizers.  A raw query bag  *)
(* is a function from the resource's keys to raw values.  The properties   *)
(* of the object literal are evaluated in order, and the first throw ends  *)
(* the call.                                                               *)
(***************************************************************************)
OrderFields ==
    <<"page", "limit", "sortField", "sortOrder", "status",
      "totalAmountFrom", "totalAmountTo", "orderDateFrom", "orderDateTo",
      "search">>
CustomerFields ==
    <<"page", "limit", "sortField", "sortOrder",
      "registrationDateFrom", "registrationDateTo",
      "lastOrderDateFrom", "lastOrderDateTo",
      "totalAmountFrom", "totalAmountTo", "orderCountFrom", "orderCountTo",
      "search">>

Get(obj, key) == IF key \in DOMAIN obj THEN obj[key] ELSE Undefined  \* obj.key

IndexOf(names, f) == CHOOSE i \in 1..Len(names) : names[i] = f

\* every property evaluated, the last throw reported
Assemble_Last(names, results) ==
    IF \E i \in 1..Len(results) : ~results[i].ok
    THEN results[CHOOSE i \in 1..Len(results) :
                    ~results[i].ok /\ \A j \in (i + 1)..Len(results) : results[j].ok]
    ELSE Ok([f \in {names[i] : i \in 1..Len(names)} |->
                results[IndexOf(names, f)].val])

Assemble(names, results) ==
    IF \E i \in 1..Len(results) : ~results[i].ok
    THEN results[CHOOSE i \in 1..Len(results) :
                    ~results[i].ok /\ \A j \in 1..(i - 1) : results[j].ok]
    ELSE Ok([f \in {names[i] : i \in 1..Len(names)} |->
                results[IndexOf(names, f)].val])

\* v || text for v ?? text
OrDefault_Falsy(v, text) == IF Falsy(v) THEN Str(text) ELSE v

OrDefault(v, text) == IF IsDefined(v) THEN v ELSE Str(text)      \* v ?? text

normalizeOrderQueryParams(query, defaultLimit) ==
    Assemble(OrderFields, <<
        Then(getSingleString(Get(query, "page")),
             LAMBDA v : parsePositiveInt(v, NumberVal(IntNum(1)))),
        Then(getSingleString(Get(query, "limit")),
             LAMBDA v : Ok(NumberVal(IntNum(normalizeLimit(v, defaultLimit))))),
        Then(getSingleString(Get(query, "sortField")),
             LAMBDA v : Ok(OrDefault(v, TxtCreatedAt))),
        Then(getSingleString(Get(query, "sortOrder")),
             LAMBDA v : parseSortOrder(v, TxtDesc)),
        getSingleString(Get(query, "status")),
        Then(getSingleString(Get(query, "totalAmountFrom")), parseNonNegativeNumber),
        Then(getSingleString(Get(query, "totalAmountTo")), parseNonNegativeNumber),
        Then(getSingleString(Get(query, "orderDateFrom")), parseDate),
        Then(getSingleString(Get(query, "orderDateTo")), parseDate),
        Then(getSingleString(Get(query, "search")), sanitizeSearch) >>)

normalizeCustomerQueryParams(query, defaultLimit) ==
    Assemble(CustomerFields, <<
        Then(getSingleString(Get(query, "page")),
             LAMBDA v : parsePositiveInt(v, NumberVal(IntNum(1)))),
        Then(getSingleString(Get(query, "limit")),
             LAMBDA v : Ok(NumberVal(IntNum(normalizeLimit(v, defaultLimit))))),
        Then(getSingleString(Get(query, "sortField")),
             LAMBDA v : Ok(OrDefault(v, TxtCreatedAt))),
        Then(getSingleString(Get(query, "sortOrder")),
             LAMBDA v : parseSortOrder(v, TxtDesc)),
        Then(getSingleString(Get(query, "registrationDateFrom")), parseDate),
        Then(getSingleString(Get(query, "registrationDateTo")), parseDate),
        Then(getSingleString(Get(query, "lastOrderDateFrom")), parseDate),
        Then(getSingleString(Get(query, "lastOrderDateTo")), parseDate),
        Then(getSingleString(Get(query, "totalAmountFrom")), parseNonNegativeNumber),
        Then(getSingleString(Get(query, "totalAmountTo")), parseNonNegativeNumber),
        Then(getSingleString(Get(query, "orderCountFrom")), parseNonNegativeNumber),
        Then(getSingleString(Get(query, "orderCountTo")), parseNonNegativeNumber),
        Then(getSingleString(Get(query, "search")), sanitizeSearch) >>)

(***************************************************************************)
(* Controllers.  A filter, a range and a sort specification are objects:   *)
(* functions from their keys to values.  A handler ends by handing         *)
(* filters, sort, skip and limit to the database (Ok) or by passing an     *)
(* error to next (Throw).                                                  *)
(***************************************************************************)
EmptyObject == [k \in {} |-> Undefined]
Prop(key, value) == key :> value
PropIf(cond, key, value) == IF cond THEN key :> value ELSE EmptyObject

Truthy(v) ==
    CASE v.kind = "undefined" -> FALSE
      [] v.kind = "null" -> FALSE
      [] v.kind = "string" -> ValueOf(v) # <<>>
      [] v.kind = "number" ->
            ~ValueOf(v).nan /\ (ValueOf(v).int # 0 \/ ValueOf(v).frac # <<>>)
      [] OTHER -> TRUE

MsgStatus == "Invalid status parameter"
MsgOrderSearch == "Invalid search query"
MsgCustomerSearch == "Invalid search parameter"
MaxCustomerSearchLength == 50
TxtTotalAmount == <<"t", "o", "t", "a", "l", "A", "m", "o", "u", "n", "t">>
TxtOrderCount == <<"o", "r", "d", "e", "r", "C", "o", "u", "n", "t">>

KeyText(key) ==                                        \* the characters of a key
    CASE key = "page" -> <<"p", "a", "g", "e">>
      [] key = "limit" -> <<"l", "i", "m", "i", "t">>
      [] key = "sortField" -> <<"s", "o", "r", "t", "F", "i", "e", "l", "d">>
      [] key = "sortOrder" -> <<"s", "o", "r", "t", "O", "r", "d", "e", "r">>
      [] key = "status" -> <<"s", "t", "a", "t", "u", "s">>
      [] key = "totalAmountFrom" -> <<"t", "o", "t", "a", "l", "A", "m", "o", "u", "n", "t", "F", "r", "o", "m">>
      [] key = "totalAmountTo" -> <<"t", "o", "t", "a", "l", "A", "m", "o", "u", "n", "t", "T", "o">>
      [] key = "orderDateFrom" -> <<"o", "r", "d", "e", "r", "D", "a", "t", "e", "F", "r", "o", "m">>
      [] key = "orderDateTo" -> <<"o", "r", "d", "e", "r", "D", "a", "t", "e", "T", "o">>
      [] key = "search" -> <<"s", "e", "a", "r", "c", "h">>
      [] key = "registrationDateFrom" -> <<"r", "e", "g", "i", "s", "t", "r", "a", "t", "i", "o", "n", "D", "a", "t", "e", "F", "r", "o", "m">>
      [] key = "registrationDateTo" -> <<"r", "e", "g", "i", "s", "t", "r", "a", "t", "i", "o", "n", "D", "a", "t", "e", "T", "o">>
      [] key = "lastOrderDateFrom" -> <<"l", "a", "s", "t", "O", "r", "d", "e", "r", "D", "a", "t", "e", "F", "r", "o", "m">>
      [] key = "lastOrderDateTo" -> <<"l", "a", "s", "t", "O", "r", "d", "e", "r", "D", "a", "t", "e", "T", "o">>
      [] key = "orderCountFrom" -> <<"o", "r", "d", "e", "r", "C", "o", "u", "n", "t", "F", "r", "o", "m">>
      [] key = "orderCountTo" -> <<"o", "r", "d", "e", "r", "C", "o", "u", "n", "t", "T", "o">>
      [] key = "name" -> <<"n", "a", "m", "e">>
      [] key = "email" -> <<"e", "m", "a", "i", "l">>
      [] key = "roles" -> <<"r", "o", "l", "e", "s">>
      [] key = "title" -> <<"t", "i", "t", "l", "e">>
      [] key = "$where" -> <<"$", "w", "h", "e", "r", "e">>
      [] key = "$ne" -> <<"$", "n", "e">>
      [] key = "$gt" -> <<"$", "g", "t">>
      [] key = "$set" -> <<"$", "s", "e", "t">>
      [] key = "profile.role" -> <<"p", "r", "o", "f", "i", "l", "e", ".", "r", "o", "l", "e">>

\* key.startsWith('$') || key.includes('.')
IsDangerousKey(key) ==
    LET text == KeyText(key)
    IN  (text # <<>> /\ Head(text) = "$") \/ \E i \in 1..Len(text) : text[i] = "."

\* sanitizeObject cleaning the keys of the top object only
sanitizeObject_Shallow(obj) ==
    IF obj.kind = "object"
    THEN Obj([k \in {key \in DOMAIN ValueOf(obj) : ~IsDangerousKey(key)} |->
                ValueOf(obj)[k]])
    ELSE obj

\* controllers/customers.ts and, with the same text, its duplicate: values
\* that are not objects are returned as they are, arrays are mapped, and an
\* object is rebuilt from its keys that are not dangerous.  A Date has no
\* own enumerable keys.
RECURSIVE sanitizeObject(_)
sanitizeObject(obj) ==
    IF TypeOf(obj) # "object" \/ obj.kind = "null" THEN obj
    ELSE IF obj.kind = "array"
    THEN Arr([i \in 1..Len(obj.items) |-> ValueOf(sanitizeObject(Str(obj.items[i])))])
    ELSE IF obj.kind = "list"
    THEN List([i \in 1..Len(obj.items) |-> sanitizeObject(obj.items[i])])
    ELSE IF obj.kind = "object"
    THEN Obj([k \in {key \in DOMAIN ValueOf(obj) : ~IsDangerousKey(key)} |->
                sanitizeObject(ValueOf(obj)[k])])
    ELSE IF obj.kind = "date" THEN Obj(EmptyObject)
    ELSE obj

escapeRegex(text) == EscapeRegexMeta(text)
escapeRegExp(text) == EscapeRegexMeta(text)
RegExp(source, flags) == [source |-> source, flags |-> flags]

SortDirection(sortOrder) == IF ValueOf(sortOrder) = TxtDesc THEN -1 ELSE 1
Skip(page, limit) ==
    (IntegerValue(ValueOf(page)) - 1) * IntegerValue(ValueOf(limit))

\* the bounds tested for truthiness: a bound 0 is dropped
NumberRange_Truthy(from, to) ==
    PropIf(Truthy(from), "$gte", from) @@ PropIf(Truthy(to), "$lte", to)

\* { $gte, $lte } of a pair of numbers, present when !== undefined
NumberRange(from, to) ==
    PropIf(IsDefined(from), "$gte", from) @@ PropIf(IsDefined(to), "$lte", to)

\* controllers/order.ts: the order date range keeps the parsed dates
OrderDateRange(from, to) ==
    PropIf(IsDefined(from), "$gte", from) @@ PropIf(IsDefined(to), "$lte", to)

\* customers: the upper bound is moved to the end of its local day
EndOfDay(to) == DateVal(SetHours(ValueOf(to), 23, 59, 59, 999))
CustomerDateRange(from, to) ==
    PropIf(Truthy(from), "$gte", from)
        @@ (IF Truthy(to) THEN Prop("$lte", EndOfDay(to)) ELSE EmptyObject)

\* the orderNumber condition pushed for every search term
OrderSearchConditions_AlwaysNumber(search) ==
    LET searchRegex == RegExp(escapeRegExp(ValueOf(search)), "i")
        searchNumber == ToNumber(ValueOf(search))
    IN  <<Prop("products.title", searchRegex), Prop("orderNumber", searchNumber)>>

OrderSearchConditions(search) ==
    LET searchRegex == RegExp(escapeRegExp(ValueOf(search)), "i")
        searchNumber == ToNumber(ValueOf(search))
    IN  <<Prop("products.title", searchRegex)>>
            \o (IF ~NumberIsNaN(searchNumber)
                THEN <<Prop("orderNumber", searchNumber)>>
                ELSE <<>>)

\* Object.assign(target, source): the properties of source win
ObjectAssign(target, source) == source @@ target

\* the status test applied to strings only
StatusRejected_StringsOnly(status) ==
    Truthy(status) /\ TypeOf(status) = "string"
        /\ ~AllIn(ValueOf(status), StatusAllowed)

\* a present status that is not a string of /^[a-zA-Z0-9_-]+$/
StatusRejected(status) ==
    Truthy(status)
        /\ ~(TypeOf(status) = "string" /\ AllIn(ValueOf(status), StatusAllowed))

\* the filter keys the two status blocks of getOrders leave
StatusFilters(status) ==
    LET checked == PropIf(Truthy(status), "status", status)
        assigned == IF Truthy(status) /\ TypeOf(status) = "object"
                    THEN ObjectAssign(checked, ValueOf(status))
                    ELSE checked
    IN  IF Truthy(status) /\ TypeOf(status) = "string"
        THEN Prop("status", status) @@ assigned
        ELSE assigned

getOrders(query) ==
    Then(normalizeOrderQueryParams(query, 10), LAMBDA p :
        IF StatusRejected(p.status)
        THEN Throw("BadRequestError", MsgStatus)
        ELSE IF Truthy(p.search)
                /\ SomeOutside(ValueOf(p.search), WordChars \cup WhiteSpace)
        THEN Throw("BadRequestError", MsgOrderSearch)
        ELSE LET filters ==                 \* a later assignment wins
                    PropIf(Truthy(p.search), "$or",
                           OrderSearchConditions(p.search))
                    @@ PropIf(IsDefined(p.orderDateFrom) \/ IsDefined(p.orderDateTo),
                              "createdAt",
                              OrderDateRange(p.orderDateFrom, p.orderDateTo))
                    @@ PropIf(IsDefined(p.totalAmountFrom) \/ IsDefined(p.totalAmountTo),
                              "totalAmount",
                              NumberRange(p.totalAmountFrom, p.totalAmountTo))
                    @@ StatusFilters(p.status)
                 sort == PropIf(Truthy(p.sortField) /\ Truthy(p.sortOrder),
                                ValueOf(p.sortField), SortDirection(p.sortOrder))
             IN  Ok([filters |-> filters, sort |-> sort,
                     skip |-> Skip(p.page, p.limit),
                     limit |-> IntegerValue(ValueOf(p.limit))]))

AllowedCustomerSortFields == {TxtCreatedAt, TxtTotalAmount, TxtOrderCount, TxtName}

CustomerRangeFilters(p) ==
    PropIf(Truthy(p.registrationDateFrom) \/ Truthy(p.registrationDateTo),
           "createdAt",
           CustomerDateRange(p.registrationDateFrom, p.registrationDateTo))
    @@ PropIf(Truthy(p.lastOrderDateFrom) \/ Truthy(p.lastOrderDateTo),
              "lastOrderDate",
              CustomerDateRange(p.lastOrderDateFrom, p.lastOrderDateTo))
    @@ PropIf(IsDefined(p.totalAmountFrom) \/ IsDefined(p.totalAmountTo),
              "totalAmount", NumberRange(p.totalAmountFrom, p.totalAmountTo))
    @@ PropIf(IsDefined(p.orderCountFrom) \/ IsDefined(p.orderCountTo),
              "orderCount", NumberRange(p.orderCountFrom, p.orderCountTo))

\* [{ name: searchRegex }, { lastOrder: { $in: ids of the orders whose
\* deliveryAddress matches searchRegex } }]
CustomerSearchConditions(searchRegex) ==
    <<Prop("name", searchRegex),
      Prop("lastOrder", Prop("$in", Prop("deliveryAddress", searchRegex)))>>

SearchInPolicy(search) ==
    Truthy(search) /\ Len(ValueOf(search)) <= MaxCustomerSearchLength

CustomerQueryPlan(p, filters) ==
    LET safeSortField ==
            IF ValueOf(p.sortField) \in AllowedCustomerSortFields
            THEN ValueOf(p.sortField) ELSE TxtCreatedAt
    IN  Ok([filters |-> filters,
            sort |-> Prop(safeSortField, SortDirection(p.sortOrder)),
            skip |-> Skip(p.page, p.limit),
            limit |-> IntegerValue(ValueOf(p.limit))])

\* controllers/customers.ts
getCustomers(query) ==
    Then(normalizeCustomerQueryParams(ValueOf(sanitizeObject(Obj(query))), 10), LAMBDA p :
        IF SearchInPolicy(p.search)
        THEN CustomerQueryPlan(p,
                CustomerRangeFilters(p)
                @@ Prop("$or", CustomerSearchConditions(
                                  RegExp(escapeRegExp(ValueOf(p.search)), "i"))))
        ELSE Throw("NotFoundError", MsgCustomerSearch))

\* the duplicate customers controller
getCustomersDuplicate(query) ==
    Then(normalizeCustomerQueryParams(ValueOf(sanitizeObject(Obj(query))), 10), LAMBDA p :
        CustomerQueryPlan(p,
            CustomerRangeFilters(p)
            @@ PropIf(SearchInPolicy(p.search), "$or",
                      CustomerSearchConditions(
                          RegExp(escapeRegex(ValueOf(p.search)), "i")))))

\* the window without its limit
Window_Unlimited(count, skip, limit) == Max(0, count - skip)

\* the number of documents that $skip and $limit, the find options skip
\* and limit, or slice(skip, skip + limit) leave of count documents
Window(count, skip, limit) == Min(limit, Max(0, count - skip))

\* $group by _id after the window: the rows left belong to one order, or
\* each to an order of its own
GroupCounts(rows) == {Min(1, rows), rows}

MsgNoUser == "No user with the given id"
MsgSearchTooLong == "Search query is too long"
MaxOrderSearchLength == 100
TxtComma == <<",">>
TxtObject ==
    <<"[", "o", "b", "j", "e", "c", "t", " ", "O", "b", "j", "e", "c", "t", "]">>

\* String(value), as parseInt applies it to its argument
RECURSIVE Join(_)
Join(texts) ==
    IF texts = <<>> THEN <<>>
    ELSE IF Len(texts) = 1 THEN texts[1]
    ELSE texts[1] \o TxtComma \o Join(Tail(texts))
ToStringValue(v) ==
    CASE v.kind = "string" -> ValueOf(v)
      [] v.kind = "array" -> Join(v.items)
      [] OTHER -> TxtObject

\* controllers/order.ts, the orders of the current user; user tells
\* whether User.findById found the user
getOrdersCurrentUser(query, user) ==
    LET search == Get(query, "search")
        page == IF IsDefined(Get(query, "page")) THEN Get(query, "page") ELSE Str(Txt1)
        limit == IF IsDefined(Get(query, "limit")) THEN Get(query, "limit") ELSE Str(Txt5)
        normalizedLimit == normalizeLimit(limit, 5)
        parsed == ParseInt(ToStringValue(page))
        currentPage ==
            Max(1, IF NumberIsNaN(parsed) \/ IntegerValue(parsed) = 0
                   THEN 1 ELSE IntegerValue(parsed))
        skip == (currentPage - 1) * normalizedLimit
        searching == TypeOf(search) = "string" /\ Len(ValueOf(search)) > 0
        searchRegex == RegExp(escapeRegExp(ValueOf(search)), "i")
        searchNumber == ToNumber(ValueOf(search))
        productQuery ==
            IF ~searching THEN EmptyObject
            ELSE Prop("title", searchRegex)
                    @@ PropIf(~NumberIsNaN(searchNumber), "$or",
                              <<Prop("title", searchRegex), Prop("price", searchNumber)>>)
    IN  IF ~user THEN Throw("NotFoundError", MsgNoUser)
        ELSE IF searching /\ Len(ValueOf(search)) > MaxOrderSearchLength
        THEN Throw("BadRequestError", MsgSearchTooLong)
        ELSE Ok([productQuery |-> productQuery, currentPage |-> currentPage,
                 skip |-> skip, limit |-> normalizedLimit])

MsgInvalidId == "Invalid user id"
MsgUserNotFound == "User not found"
MsgNotAnObject == "Cannot read properties of undefined"

\* Types.ObjectId.isValid(id) && new Types.ObjectId(id).toString() === id:
\* the 24 lower-case hexadecimal digits of an ObjectId
ObjectIdLength == 24
HexDigits == Digits \cup {"a", "b", "c", "d", "e", "f"}
isValidObjectId(id) == Len(id) = ObjectIdLength /\ AllIn(id, HexDigits)

IsArray(v) == v.kind \in {"array", "list"}              \* Array.isArray(v)

\* controllers/customers.ts, PATCH /customers/:id; updatedUser tells
\* whether findByIdAndUpdate found the user.  The outcome carries the
\* update handed to the database.
updateCustomer(params, body, updatedUser) ==
    LET id == IF TypeOf(Get(params, "id")) = "string"
              THEN ValueOf(Get(params, "id")) ELSE <<>>
        sanitizedBody == sanitizeObject(body)
    IN  IF ~isValidObjectId(id) THEN Throw("NotFoundError", MsgInvalidId)
        ELSE IF sanitizedBody.kind \in {"undefined", "null"}
        THEN Throw("TypeError", MsgNotAnObject)
        ELSE LET fields == IF sanitizedBody.kind = "object"
                           THEN ValueOf(sanitizedBody) ELSE EmptyObject
                 updateData ==
                    PropIf(TypeOf(Get(fields, "name")) = "string",
                           "name", Get(fields, "name"))
                    @@ PropIf(TypeOf(Get(fields, "email")) = "string",
                              "email", Get(fields, "email"))
                    @@ PropIf(IsArray(Get(fields, "roles")),
                              "roles", Get(fields, "roles"))
             IN  IF updatedUser
                 THEN Ok([update |-> updateData])
                 ELSE Throw("NotFoundError", MsgUserNotFound)

(***************************************************************************)
(* Inputs of the model.                                                    *)
(***************************************************************************)
RECURSIVE TextsUpTo(_, _)
TextsUpTo(alphabet, n) ==
    IF n = 0 THEN {<<>>}
    ELSE LET shorter == TextsUpTo(alphabet, n - 1)
         IN  shorter \cup {Append(t, c) : t \in shorter, c \in alphabet}

NumAlphabet == {"0", "1", "2", "-", "+", ".", " ", "a"}
SearchAlphabet == {"a", "B", "7", " ", "-", "_", ".", "+", "%", "'", "*", "\\"}
NumTexts == TextsUpTo(NumAlphabet, MaxNumLen)
SearchTexts == TextsUpTo(SearchAlphabet, MaxSearchLen)

SortOrderTexts ==
    {TxtEmpty, TxtAsc, TxtDesc, TxtUp, TxtAscUpper, TxtDescSpace, TxtAbc}
ArrayItems == {TxtEmpty, TxtA, TxtB, Txt2}
Arrays == UNION {[1..n -> ArrayItems] : n \in 0..MaxArrayLen}
RawValues ==
    {Undefined} \cup {Str(t) : t \in ArrayItems} \cup {Arr(a) : a \in Arrays}
LimitValues ==
    {Undefined, Other} \cup {Str(t) : t \in NumTexts}
        \cup {Arr(a) : a \in UNION {[1..n -> {TxtEmpty, Txt2, Txt12, TxtAbc}] :
                                       n \in 0..MaxArrayLen}}
DefaultLimits == (-1)..MaxDefaultLimit
ConfiguredLimits == {0, 10}
TimezoneOffsets == {-300, 0, 180}

\* a search term one character longer than the customers controllers take
TxtTooLong == [i \in 1..(MaxCustomerSearchLength + 1) |-> "a"]

DateValues == {Str(TxtDateOnly), Str(TxtDateLocal), Str(TxtDateUtc), Str(TxtDateBad)}
AmountValues == {Str(Txt0), Str(Txt10), Str(TxtMinus1), Str(TxtAbc)}
FieldValues(f) ==
    CASE f = "page" -> {Str(Txt2), Str(Txt0), Str(TxtEmpty), Arr(<<Txt1, Txt2>>)}
      [] f = "limit" -> {Str(Txt999), Str(Txt5), Str(TxtAbc), Arr(<<Txt3>>)}
      [] f = "sortField" -> {Str(TxtName), Str(TxtPassword), Str(TxtEmpty), Arr(<<>>)}
      [] f = "sortOrder" -> {Str(TxtAsc), Str(TxtUp), Str(TxtEmpty), Arr(<<TxtDesc>>)}
      [] f = "status" ->
            {Str(TxtNew), Str(TxtDotted), Str(TxtEmpty), Arr(<<TxtA>>), Arr(<<TxtA, TxtB>>),
             Obj(Prop("$ne", Str(TxtA)))}
      [] f = "search" ->
            {Str(TxtAbc), Str(TxtDotted), Str(TxtOBrien), Str(TxtBlank), Str(Txt12),
             Str(TxtOneTwo), Str(TxtTooLong)}
      [] f \in {"totalAmountFrom", "totalAmountTo", "orderCountFrom", "orderCountTo"} ->
            AmountValues
      [] OTHER -> DateValues

EmptyQuery(fields) == [f \in {fields[i] : i \in 1..Len(fields)} |-> Undefined]

\* the bags over the fields from position i on with at most n keys present
RECURSIVE BagsFrom(_, _, _)
BagsFrom(fields, i, n) ==
    IF i > Len(fields) THEN {EmptyObject}
    ELSE {Prop(fields[i], Undefined) @@ rest : rest \in BagsFrom(fields, i + 1, n)}
            \cup (IF n = 0 THEN {}
                  ELSE {Prop(fields[i], v) @@ rest :
                            v \in FieldValues(fields[i]),
                            rest \in BagsFrom(fields, i + 1, n - 1)})

QueriesWith(fields, n) == BagsFrom(fields, 1, n)

OrderQueries == QueriesWith(OrderFields, MaxPresent)
CustomerQueries == QueriesWith(CustomerFields, MaxPresent)

\* GET /orders/me: search, page and limit as the query parser leaves them
TxtOrderSearchTooLong == [i \in 1..(MaxOrderSearchLength + 1) |-> "a"]
CurrentUserQueries ==
    {Prop("search", search) @@ Prop("page", page) @@ Prop("limit", limit) :
        search \in {Undefined, Str(TxtAbc), Str(Txt12), Str(TxtOrderSearchTooLong),
                    Arr(<<TxtA>>)},
        page \in {Undefined, Str(TxtMinus1)} \cup FieldValues("page"),
        limit \in {Undefined} \cup FieldValues("limit")}

\* how many documents the database has for the filter of a request
MatchingCounts == {0, MaxMatching}

\* query keys a client adds to reach the database
InjectedKeys ==
    {Prop("$where", Str(TxtA)),
     Prop("profile.role", Str(TxtA)),
     Prop("$where", Str(TxtA)) @@ Prop("profile.role", Str(TxtB))}
\* a search term of dots, within the length limit as the client sends it
TxtDots == [i \in 1..(MaxCustomerSearchLength \div 2 + 1) |-> "."]
CustomerRequests ==
    CustomerQueries
        \cup {q @@ extra : q \in QueriesWith(CustomerFields, 1), extra \in InjectedKeys}
        \cup {[EmptyQuery(CustomerFields) EXCEPT !["search"] = Str(TxtDots)]}

\* values for sanitizeObject: strings, numbers, null, and around them
\* objects and arrays nested up to depth MaxDepth
JsonLeaves == {Str(TxtA), NumberVal(IntNum(0)), Null}
SafeKey == "name"
UnsafeKeys == {"$where", "profile.role"}
Wrapped(v) ==
    {Obj(Prop(k, v)) : k \in {SafeKey} \cup UnsafeKeys}
        \cup {Obj(Prop(SafeKey, v) @@ Prop(k, Str(TxtB))) : k \in UnsafeKeys}
        \cup {Obj(Prop(k, v) @@ Prop(SafeKey, Str(TxtB))) : k \in UnsafeKeys}
        \cup {List(<<v>>), List(<<Str(TxtB), v>>)}
RECURSIVE JsonValues(_)
JsonValues(depth) ==
    IF depth = 0 THEN JsonLeaves \cup {Arr(<<>>), Arr(<<TxtA, TxtB>>), Obj(EmptyObject)}
    ELSE JsonValues(depth - 1) \cup UNION {Wrapped(v) : v \in JsonValues(depth - 1)}

\* PATCH /customers/:id: the id of the path and the body
TxtObjectId == [i \in 1..ObjectIdLength |-> IF i % 2 = 0 THEN "a" ELSE "5"]
TxtObjectIdUpper == [i \in 1..ObjectIdLength |-> IF i % 2 = 0 THEN "A" ELSE "5"]
RequestParams ==
    {Prop("id", Str(TxtObjectId)), Prop("id", Str(TxtObjectIdUpper)),
     Prop("id", Str(TxtAbc)), EmptyObject}
BodyNames == {Undefined, Str(TxtName), Obj(Prop("$ne", Str(TxtEmpty)))}
BodyEmails == {Undefined, Str(TxtA), NumberVal(IntNum(0))}
BodyRoles ==
    {Undefined, Str(TxtA), Arr(<<TxtA>>),
     List(<<Obj(Prop("$gt", Str(TxtA)) @@ Prop("title", Str(TxtB)))>>)}
BodyExtras ==
    {EmptyObject, Prop("$set", Obj(Prop("roles", Arr(<<TxtA>>)))),
     Prop("profile.role", Str(TxtA))}
RequestBodies ==
    {Undefined}
        \cup {Obj(PropIf(IsDefined(name), "name", name)
                   @@ PropIf(IsDefined(email), "email", email)
                   @@ PropIf(IsDefined(roles), "roles", roles)
                   @@ extra) :
                name \in BodyNames, email \in BodyEmails, roles \in BodyRoles,
                extra \in BodyExtras}

(***************************************************************************)
(* File upload: the multer configuration (unnamed/part_001) and uploadFile *)
(* (controllers/order.ts).  A path on disk is a tuple; the disk is the set *)
(* of paths that exist.                                                    *)
(***************************************************************************)
MsgNoFile == "File is not uploaded"
MsgMimeType == "File type is not allowed"
MsgFileName == "File name is not allowed"
MsgFileTooSmall == "File size must be more than 2KB"
MsgFileTooLarge == "File size must not exceed 10MB"
MsgNotAnImage == "File is not a valid image"
MsgFileLimit == "File too large"
MsgSharp == "Input file contains unsupported image format"

ALLOWED_MIME_TYPES ==
    {"image/png", "image/jpg", "image/jpeg", "image/gif", "image/svg+xml"}
allowedMimeTypes ==
    {"image/png", "image/jpg", "image/jpeg", "image/gif", "image/svg+xml"}

MinFileSize == 2 * 1024
MaxFileSize == 10 * 1024 * 1024
fileSize == 10 * 1024 * 1024

LowerCaseLetters ==
    <<"a","b","c","d","e","f","g","h","i","j","k","l","m",
      "n","o","p","q","r","s","t","u","v","w","x","y","z">>
UpperCaseLetters ==
    <<"A","B","C","D","E","F","G","H","I","J","K","L","M",
      "N","O","P","Q","R","S","T","U","V","W","X","Y","Z">>
ToUpperCase(s) ==
    [i \in 1..Len(s) |->
        IF \E k \in 1..26 : LowerCaseLetters[k] = s[i]
        THEN UpperCaseLetters[CHOOSE k \in 1..26 : LowerCaseLetters[k] = s[i]]
        ELSE s[i]]

UnsafeFilenameChars == {"<", ">", ":", "\"", "/", "\\", "|", "?", "*"}
ReservedFilenames ==
    {<<"C","O","N">>, <<"P","R","N">>, <<"A","U","X">>, <<"N","U","L">>}
        \cup {<<"C","O","M",d>> : d \in Digits \ {"0"}}
        \cup {<<"L","P","T",d>> : d \in Digits \ {"0"}}

\* /[<>:"/\\|?*]|^(?:CON|PRN|AUX|NUL|COM[1-9]|LPT[1-9])$/i does not match
isFilenameSafe(filename) ==
    /\ ~ \E i \in 1..Len(filename) : filename[i] \in UnsafeFilenameChars
    /\ ToUpperCase(filename) \notin ReservedFilenames

\* no file in the request
NoFile == [present |-> FALSE]
UploadedFile(mimetype, originalname, size) ==
    [present |-> TRUE, mimetype |-> mimetype, originalname |-> originalname,
     size |-> size]

\* multer: fileFilter accepts the MIME types of the list
fileFilter(f) == f.mimetype \in allowedMimeTypes

\* where multer stages the file, and where uploadFile writes the copy
tempPath == <<"temp">>
SafeExt(format) == IF format = "jpeg" THEN ".jpg" ELSE "." \o format
CleanPath(format) == <<"clean", SafeExt(format)>>
NoPath == <<>>

\* the early returns of uploadFile, in order
UploadRejection(f) ==
    IF ~ f.present THEN Throw("BadRequestError", MsgNoFile)
    ELSE IF f.mimetype \notin ALLOWED_MIME_TYPES
    THEN Throw("BadRequestError", MsgMimeType)
    ELSE IF ~ isFilenameSafe(f.originalname)
    THEN Throw("BadRequestError", MsgFileName)
    ELSE IF f.size < MinFileSize
    THEN Throw("BadRequestError", MsgFileTooSmall)
    ELSE IF f.size > MaxFileSize
    THEN Throw("BadRequestError", MsgFileTooLarge)
    ELSE Ok(Undefined)

\* !metadata.format || !metadata.width || !metadata.height
MetadataInvalid(metadata) ==
    metadata.format = "" \/ metadata.width = 0 \/ metadata.height = 0

\* the files a client uploads
TxtImageName == <<"a", ".", "p", "n", "g">>
TxtUnsafeName == <<"a", "<", "b">>
TxtReservedName == <<"c", "o", "n">>
TxtDeviceImage == <<"c", "o", "n", ".", "p", "n", "g">>
UploadNames == {TxtImageName, TxtUnsafeName, TxtReservedName, TxtDeviceImage}
UploadMimeTypes == {"image/png", "image/jpeg", "text/html"}
UploadSizes ==
    {0, MinFileSize - 1, MinFileSize, MaxFileSize, MaxFileSize + 1}
Uploads ==
    {NoFile} \cup {UploadedFile(m, n, z) :
                    m \in UploadMimeTypes, n \in UploadNames, z \in UploadSizes}

\* what sharp reads from the staged file: nothing, or its metadata
Unreadable == [readable |-> FALSE]
Metadatas ==
    {Unreadable}
        \cup {[readable |-> TRUE, format |-> f, width |-> w, height |-> h] :
                f \in {"", "jpeg", "png"}, w \in {0, 1}, h \in {0, 1}}

\* how sharp's toFile ends: the copy written, nothing written, or an
\* incomplete copy left behind
ToFileResults == {"written", "failed", "partial"}

(***************************************************************************)
(* getOrderCurrentUserByNumber (controllers/order.ts).  The orders         *)
(* collection is a function from the order numbers in use to the customer  *)
(* of the order: a user id, or NoCustomer when populate finds no user.     *)
(***************************************************************************)
MsgOrderNotFound == "Order not found"
MsgOrderId == "Invalid order id"
MsgNullCustomer == "Cannot read properties of null"
NoCustomer == "null"

\* typeof req.params.orderNumber === 'string' ? req.params.orderNumber : ''
OrderNumberOf(params) ==
    IF TypeOf(params["orderNumber"]) = "string"
    THEN ValueOf(params["orderNumber"]) ELSE <<>>

\* Order.findOne({ orderNumber }).populate(...).orFail(...): the order with
\* that number, a CastError when the number cannot be cast to the schema's
\* type, or the NotFoundError of orFail
findOneOrFail(orders, orderNumber, castError) ==
    IF orderNumber \in DOMAIN orders
    THEN Ok([orderNumber |-> orderNumber, customer |-> orders[orderNumber]])
    ELSE IF castError THEN Throw("CastError", MsgOrderId)
    ELSE Throw("NotFoundError", MsgOrderNotFound)

\* the catch block of the order handlers
OrderCatch(error) ==
    IF error.class = "CastError"
    THEN Throw("BadRequestError", MsgOrderId) ELSE error

getOrderCurrentUserByNumber_AnyOwner(params, userId, orders, castError) ==
    LET found == findOneOrFail(orders, OrderNumberOf(params), castError)
    IN  IF ~ found.ok THEN OrderCatch(found)
        ELSE Ok([status |-> 200, order |-> found.val])
getOrderCurrentUserByNumber(params, userId, orders, castError) ==
    LET found == findOneOrFail(orders, OrderNumberOf(params), castError)
    IN  IF ~ found.ok THEN OrderCatch(found)
        ELSE IF found.val.customer = NoCustomer
        THEN OrderCatch(Throw("TypeError", MsgNullCustomer))
        ELSE IF found.val.customer # userId
        THEN Throw("NotFoundError", MsgOrderNotFound)
        ELSE Ok([status |-> 200, order |-> found.val])

\* the users, the order numbers and the collections of the calls
UserIds == {"u1", "u2"}
OrderNumbers == {Txt1, Txt2, TxtEmpty}
OrderCollections ==
    UNION {[numbers -> UserIds \cup {NoCustomer}] :
            numbers \in SUBSET OrderNumbers}
OrderParams ==
    {Prop("orderNumber", v) :
        v \in {Str(Txt1), Str(Txt2), Str(TxtEmpty), Arr(<<Txt1>>)}}

(***************************************************************************)
(* The state: the process time zone, the call under way (function and      *)
(* arguments), its position, its outcome and, for a list endpoint, the     *)
(* number of records in the response.  Calls share no state: each          *)
(* behaviour is one call, made from an arbitrary input.                    *)
(***************************************************************************)
Called(fn, args) ==
    /\ call = [fn |-> fn, args |-> args]
    /\ pc = "called"
    /\ outcome = Ok(Undefined)
    /\ records = 0
    /\ file = NoFile
    /\ cleanPath = NoPath
    /\ disk = {}

\* the bags given to a normalizer with default limit d: every bag with the
\* configured limit of the controllers, smaller bags with the others
BagsFor(queries, fields, d) ==
    IF d = 10 THEN queries ELSE QueriesWith(fields, MaxPresent - 1)

\* The scalar parsers, sanitizeObject and updateCustomer read no date: they
\* are called in a process at UTC.  The normalizers and the list endpoints
\* are called in every time zone.
Init ==
    \/ /\ timezoneOffset = 0
       /\ \/ \E v \in RawValues : Called("getSingleString", <<v>>)
          \/ \E t \in NumTexts, d \in {Undefined, NumberVal(IntNum(1))} :
                Called("parsePositiveInt", <<Str(t), d>>)
          \/ \E v \in {Undefined} \cup {Str(t) : t \in SortOrderTexts} :
                Called("parseSortOrder", <<v>>)
          \/ \E v \in {Undefined} \cup {Str(t) : t \in SearchTexts} :
                Called("sanitizeSearch", <<v>>)
          \/ \E v \in LimitValues, d \in DefaultLimits :
                Called("normalizeLimit", <<v, d>>)
          \/ \E v \in JsonValues(MaxDepth) : Called("sanitizeObject", <<v>>)
          \/ \E params \in RequestParams, body \in RequestBodies :
                Called("updateCustomer", <<params, body>>)
          \/ \E upload \in Uploads : Called("uploadFile", <<upload>>)
          \/ \E params \in OrderParams, userId \in UserIds,
                   orders \in OrderCollections :
                Called("getOrderCurrentUserByNumber", <<params, userId, orders>>)
    \/ /\ timezoneOffset \in TimezoneOffsets
       /\ \/ \E d \in ConfiguredLimits :
                \E q \in BagsFor(OrderQueries, OrderFields, d) :
                    Called("normalizeOrderQueryParams", <<q, d>>)
          \/ \E d \in ConfiguredLimits :
                \E q \in BagsFor(CustomerQueries, CustomerFields, d) :
                    Called("normalizeCustomerQueryParams", <<q, d>>)
          \/ \E q \in OrderQueries : Called("getOrders", <<q>>)
          \/ \E q \in CustomerRequests : Called("getCustomers", <<q>>)
          \/ \E q \in CustomerRequests : Called("getCustomersDuplicate", <<q>>)
          \/ \E q \in CurrentUserQueries : Called("getOrdersCurrentUser", <<q>>)

\* the call ends with the given outcome and, for a list endpoint that
\* answers, with count records in the response
Respond(fn, result, count) ==
    /\ pc = "called"
    /\ call.fn = fn
    /\ pc' = "returned"
    /\ outcome' = result
    /\ records' = IF result.ok THEN count ELSE 0
    /\ UNCHANGED <<timezoneOffset, call, file, cleanPath, disk>>

Return(fn, result) == Respond(fn, result, 0)

\* the documents a query plan gets from a collection of matching documents
Found(plan, matching) ==
    IF plan.ok THEN Window(matching, plan.val.skip, plan.val.limit) ELSE 0

CallGetSingleString ==
    Return("getSingleString", getSingleString(call.args[1]))

CallParsePositiveInt ==
    Return("parsePositiveInt", parsePositiveInt(call.args[1], call.args[2]))

CallParseSortOrder ==
    Return("parseSortOrder", parseSortOrder(call.args[1], TxtDesc))

CallSanitizeSearch ==
    Return("sanitizeSearch", sanitizeSearch(call.args[1]))

CallNormalizeLimit ==
    Return("normalizeLimit", Ok(normalizeLimit(call.args[1], call.args[2])))

CallNormalizeOrderQueryParams ==
    Return("normalizeOrderQueryParams",
           normalizeOrderQueryParams(call.args[1], call.args[2]))

CallNormalizeCustomerQueryParams ==
    Return("normalizeCustomerQueryParams",
           normalizeCustomerQueryParams(call.args[1], call.args[2]))

GetOrders ==
    /\ call.fn = "getOrders"
    /\ \E plan \in {getOrders(call.args[1])}, matching \in MatchingCounts :
          \E orders \in GroupCounts(Found(plan, matching)) :
              Respond("getOrders", plan, orders)

GetCustomers ==
    /\ call.fn = "getCustomers"
    /\ \E plan \in {getCustomers(call.args[1])}, matching \in MatchingCounts :
          Respond("getCustomers", plan, Found(plan, matching))

GetCustomersDuplicate ==
    /\ call.fn = "getCustomersDuplicate"
    /\ \E plan \in {getCustomersDuplicate(call.args[1])}, matching \in MatchingCounts :
          Respond("getCustomersDuplicate", plan, Found(plan, matching))

GetOrdersCurrentUser ==
    /\ call.fn = "getOrdersCurrentUser"
    /\ \E user \in BOOLEAN, matching \in MatchingCounts :
          \E plan \in {getOrdersCurrentUser(call.args[1], user)} :
              Respond("getOrdersCurrentUser", plan, Found(plan, matching))

CallSanitizeObject ==
    Return("sanitizeObject", Ok(sanitizeObject(call.args[1])))

UpdateCustomer ==
    \E updatedUser \in BOOLEAN :
        Return("updateCustomer",
               updateCustomer(call.args[1], call.args[2], updatedUser))

\* The upload request passes multer: a file the filter refuses is skipped
\* (req.file stays undefined), a file over the size limit ends the request
\* with multer's error and is removed, any other file is staged on disk.
Multer ==
    /\ pc = "called"
    /\ call.fn = "uploadFile"
    /\ LET upload == call.args[1] IN
        IF ~ upload.present \/ ~ fileFilter(upload)
        THEN /\ pc' = "staged"
             /\ UNCHANGED <<outcome, file, disk>>
        ELSE IF upload.size > fileSize
        THEN /\ pc' = "returned"
             /\ outcome' = Throw("MulterError", MsgFileLimit)
             /\ UNCHANGED <<file, disk>>
        ELSE /\ pc' = "staged"
             /\ file' = upload
             /\ disk' = disk \cup {tempPath}
             /\ UNCHANGED outcome
    /\ UNCHANGED <<timezoneOffset, call, records, cleanPath>>

\* uploadFile up to the try block: one of the early returns, or on
UploadValidate ==
    /\ pc = "staged"
    /\ call.fn = "uploadFile"
    /\ LET rejection == UploadRejection(file) IN
        IF rejection.ok
        THEN pc' = "validated" /\ UNCHANGED outcome
        ELSE pc' = "returned" /\ outcome' = rejection
    /\ UNCHANGED <<timezoneOffset, call, records, file, cleanPath, disk>>

\* the catch block, entered with the given files on disk: the staged file
\* is unlinked, the copy too if its path is set, and the error goes to next
UploadCatch(error, onDisk) ==
    /\ pc' = "returned"
    /\ outcome' = error
    /\ disk' = (onDisk \ {tempPath})
                    \ (IF cleanPath # NoPath THEN {cleanPath} ELSE {})
    /\ UNCHANGED cleanPath

\* await sharp(tempPath).metadata() and the test of the metadata
UploadMetadata ==
    /\ pc = "validated"
    /\ call.fn = "uploadFile"
    /\ \E metadata \in Metadatas :
        IF ~ metadata.readable
        THEN UploadCatch(Throw("Error", MsgSharp), disk)
        ELSE IF MetadataInvalid(metadata)
        THEN UploadCatch(Throw("BadRequestError", MsgNotAnImage), disk)
        ELSE /\ cleanPath' = CleanPath(metadata.format)
             /\ pc' = "inspected"
             /\ UNCHANGED <<outcome, disk>>
    /\ UNCHANGED <<timezoneOffset, call, records, file>>

\* await sharp(tempPath).toFile(cleanPath)
UploadToFile ==
    /\ pc = "inspected"
    /\ call.fn = "uploadFile"
    /\ \E result \in ToFileResults :
        IF result = "written"
        THEN /\ disk' = disk \cup {cleanPath}
             /\ pc' = "reencoded"
             /\ UNCHANGED <<outcome, cleanPath>>
        ELSE UploadCatch(Throw("Error", MsgSharp),
                         IF result = "partial"
                         THEN disk \cup {cleanPath} ELSE disk)
    /\ UNCHANGED <<timezoneOffset, call, records, file>>

\* await unlink(tempPath) and the 201 response
UploadSend ==
    /\ pc = "reencoded"
    /\ call.fn = "uploadFile"
    /\ disk' = disk \ {tempPath}
    /\ pc' = "returned"
    /\ outcome' = Ok([status |-> 201, fileName |-> cleanPath,
                      originalName |-> file.originalname])
    /\ UNCHANGED <<timezoneOffset, call, records, file, cleanPath>>

GetOrderCurrentUserByNumber ==
    /\ call.fn = "getOrderCurrentUserByNumber"
    /\ \E castError \in BOOLEAN :
          Return("getOrderCurrentUserByNumber",
                 getOrderCurrentUserByNumber(call.args[1], call.args[2],
                                             call.args[3], castError))

Next ==
    \/ CallGetSingleString
    \/ CallParsePositiveInt
    \/ CallParseSortOrder
    \/ CallSanitizeSearch
    \/ CallNormalizeLimit
    \/ CallNormalizeOrderQueryParams
    \/ CallNormalizeCustomerQueryParams
    \/ GetOrders
    \/ GetCustomers
    \/ GetCustomersDuplicate
    \/ GetOrdersCurrentUser
    \/ CallSanitizeObject
    \/ UpdateCustomer
    \/ Multer
    \/ UploadValidate
    \/ UploadMetadata
    \/ UploadToFile
    \/ UploadSend
    \/ GetOrderCurrentUserByNumber

Spec == Init /\ [][Next]_vars

(***************************************************************************)
(* Properties.                                                             *)
(***************************************************************************)
Returned(fn) == pc = "returned" /\ call.fn = fn
BadRequest(message) == Throw("BadRequestError", message)

\* the text a limit input carries: the string, or the first array element
HasText(v) == v.kind = "string" \/ (v.kind = "array" /\ Len(v.items) > 0)
TextOf(v) == v.items[1]
NumericText(t) == ~ToNumber(t).nan
NonPositiveText(t) == IsNonPositive(ToNumber(t))
HasLeadingInteger(t) ==
    LET u == TrimStart(t)
        b == IF u # <<>> /\ Head(u) \in {"+", "-"} THEN Tail(u) ELSE u
    IN  b # <<>> /\ Head(b) \in Digits

\* C1 (as stated): normalizeLimit never fails, its result is at most the
\* default d, and it is d whenever the input is absent, is not a numeric
\* text, or is a number <= 0.
C1_LimitDefaultWhenNonNumeric ==
    Returned("normalizeLimit") =>
        LET v == call.args[1]
            d == call.args[2]
        IN  /\ outcome.ok
            /\ outcome.val <= d
            /\ (~HasText(v) \/ ~NumericText(TextOf(v)) \/ NonPositiveText(TextOf(v)))
                   => outcome.val = d

\* C1 (amended): normalizeLimit never fails, its result is at most the
\* default d, and it is d whenever the input is absent (or no string and no
\* array), does not begin -- after leading white space and an optional
\* sign -- with a decimal digit, or is a number <= 0.
C1_LimitDefaultWhenNoLeadingInteger ==
    Returned("normalizeLimit") =>
        LET v == call.args[1]
            d == call.args[2]
        IN  /\ outcome.ok
            /\ outcome.val <= d
            /\ (~HasText(v) \/ ~HasLeadingInteger(TextOf(v))
                    \/ NonPositiveText(TextOf(v)))
                   => outcome.val = d

\* a requested limit above the default came back as the default
C1_Witness ==
    /\ Returned("normalizeLimit")
    /\ call.args[1] = Str(Txt12)
    /\ call.args[2] = 3
    /\ outcome = Ok(3)

\* C2 (as stated): for every search text built only from the allowed
\* characters, sanitizing the sanitizer's output succeeds and gives the
\* same output again.
C2_SanitizeIdempotent ==
    (/\ Returned("sanitizeSearch")
     /\ call.args[1].kind = "string"
     /\ AllIn(ValueOf(call.args[1]), SearchAllowed))
        => /\ outcome.ok
           /\ sanitizeSearch(outcome.val) = outcome

\* C2 (amended): for every search text built only from the allowed
\* characters the sanitizer succeeds; sanitizing its output gives the same
\* output again when the text holds no dot and no plus, and fails with the
\* invalid-search error when it holds one (the output then carries a
\* backslash).
C2_SanitizeIdempotentWithoutMeta ==
    (/\ Returned("sanitizeSearch")
     /\ call.args[1].kind = "string"
     /\ AllIn(ValueOf(call.args[1]), SearchAllowed))
        => /\ outcome.ok
           /\ IF \E i \in 1..Len(ValueOf(call.args[1])) :
                    ValueOf(call.args[1])[i] \in {".", "+"}
              THEN sanitizeSearch(outcome.val) = BadRequest(MsgSearch)
              ELSE sanitizeSearch(outcome.val) = outcome

\* an accepted text with a hyphen and a percent sign, returned trimmed
C2_Witness ==
    /\ Returned("sanitizeSearch")
    /\ call.args[1] = Str(<<" ", "-", "%">>)
    /\ outcome = Ok(Str(<<"-", "%">>))

HasDisallowed(t) == SomeOutside(t, SearchAllowed)

\* C3: a search text with a character outside the allow-list makes
\* sanitizeSearch fail with the invalid-search error, and makes both
\* parameter-set normalizers fail for every query that carries it.
C3_DisallowedSearchFails ==
    /\ (/\ Returned("sanitizeSearch")
        /\ call.args[1].kind = "string"
        /\ HasDisallowed(ValueOf(call.args[1])))
           => outcome = BadRequest(MsgSearch)
    /\ (/\ Returned("normalizeOrderQueryParams")
            \/ Returned("normalizeCustomerQueryParams")
        /\ \E i \in 1..Len(call.args[1]["search"].items) :
              HasDisallowed(call.args[1]["search"].items[i]))
           => ~outcome.ok /\ outcome.class = "BadRequestError"

\* normalizeCustomerQueryParams({search: "O'Brien"}, 10) failed
C3_Witness ==
    /\ Returned("normalizeCustomerQueryParams")
    /\ call.args[1] = [EmptyQuery(CustomerFields) EXCEPT !["search"] = Str(TxtOBrien)]
    /\ call.args[2] = 10
    /\ outcome = BadRequest(MsgSearch)

EndOfDayTime == TimeOfDay(23, 59, 59, 999)
OnlyTo(q, from, to) ==
    /\ q[from] = Undefined
    /\ q[to].kind = "string"
    /\ NewDate(ValueOf(q[to])).valid
IsEndOfThatDay(filters, key, text) ==
    /\ key \in DOMAIN filters
    /\ "$lte" \in DOMAIN filters[key]
    /\ LocalTimeOfDay(ValueOf(filters[key]["$lte"])) = EndOfDayTime
    /\ LocalDay(ValueOf(filters[key]["$lte"])) = LocalDay(NewDate(text))

\* the customers part of C4, for both customers controllers
CustomersToBoundAtEndOfDay ==
    ((Returned("getCustomers") \/ Returned("getCustomersDuplicate")) /\ outcome.ok)
        => LET q == call.args[1]
           IN  /\ OnlyTo(q, "registrationDateFrom", "registrationDateTo")
                    => IsEndOfThatDay(outcome.val.filters, "createdAt",
                                      ValueOf(q["registrationDateTo"]))
               /\ OnlyTo(q, "lastOrderDateFrom", "lastOrderDateTo")
                    => IsEndOfThatDay(outcome.val.filters, "lastOrderDate",
                                      ValueOf(q["lastOrderDateTo"]))

\* the orders part of C4
OrdersToBoundAtEndOfDay ==
    (Returned("getOrders") /\ outcome.ok)
        => LET q == call.args[1]
           IN  OnlyTo(q, "orderDateFrom", "orderDateTo")
                    => IsEndOfThatDay(outcome.val.filters, "createdAt",
                                      ValueOf(q["orderDateTo"]))

\* C4: in every list endpoint (orders and both customers controllers), when
\* only the To bound of a date range is given, the upper bound placed in
\* the filter is 23:59:59.999 of that calendar day.
C4_ToBoundAtEndOfDay == CustomersToBoundAtEndOfDay /\ OrdersToBoundAtEndOfDay

\* C5: getSingleString gives undefined for an absent field, the string for
\* a single string, the element for a one-element array, and fails with
\* the parameter-shape error for an array of more than one element.
C5_SingleValueExtraction ==
    Returned("getSingleString") =>
        LET v == call.args[1]
        IN  /\ v.kind = "undefined" => outcome = Ok(Undefined)
            /\ v.kind = "string" => outcome = Ok(v)
            /\ (v.kind = "array" /\ Len(v.items) = 1) => outcome = Ok(Str(v.items[1]))
            /\ (v.kind = "array" /\ Len(v.items) > 1) => outcome = BadRequest(MsgArray)

\* the array ["a", "b"] was rejected
C5_Witness ==
    /\ Returned("getSingleString")
    /\ call.args[1] = Arr(<<TxtA, TxtB>>)
    /\ outcome = BadRequest(MsgArray)

DenotesPositiveInteger(t) ==
    NumberIsInteger(ToNumber(t)) /\ ~IsNonPositive(ToNumber(t))

\* C6 (as stated): parsePositiveInt returns Number(s) for every text s that
\* denotes a positive integer, and fails with the invalid-parameter error
\* for every other text, the empty text and white-space-only texts included.
C6_PositiveIntOrFail ==
    Returned("parsePositiveInt") =>
        LET t == ValueOf(call.args[1])
        IN  IF DenotesPositiveInteger(t)
            THEN outcome = Ok(NumberVal(ToNumber(t)))
            ELSE outcome = BadRequest(MsgPositiveInt)

\* C6 (amended): parsePositiveInt returns Number(s) for every text s that
\* denotes a positive integer, fails with the invalid-parameter error for
\* every other non-empty text (white-space-only texts included), and
\* returns the default for the empty text, as for an absent value.
C6_PositiveIntOrFailUnlessEmpty ==
    Returned("parsePositiveInt") =>
        LET t == ValueOf(call.args[1])
        IN  IF t = <<>> THEN outcome = Ok(call.args[2])
            ELSE IF DenotesPositiveInteger(t)
            THEN outcome = Ok(NumberVal(ToNumber(t)))
            ELSE outcome = BadRequest(MsgPositiveInt)

\* the empty text came back as the default 1
C6_Witness ==
    /\ Returned("parsePositiveInt")
    /\ call.args[1] = Str(<<>>)
    /\ outcome = Ok(NumberVal(IntNum(1)))

OnlyPageAndLimit(q) ==
    \A f \in DOMAIN q : f \notin {"page", "limit"} => q[f] = Undefined
RestAbsent(p) ==
    \A f \in {"status", "totalAmountFrom", "totalAmountTo",
              "orderDateFrom", "orderDateTo", "search"} : p[f] = Undefined

\* C7: for a raw bag holding only page and limit, normalizeOrderQueryParams
\* returns the parsed page (1 when page is absent), the limit capped at
\* defaultLimit, sortField "createdAt", sortOrder "desc" and every other
\* field absent; {page: "2", limit: "999"} with defaultLimit 10 gives page 2
\* and limit 10.
C7_OrderDefaults ==
    (Returned("normalizeOrderQueryParams") /\ OnlyPageAndLimit(call.args[1]))
        => LET q == call.args[1]
               d == call.args[2]
           IN  /\ (q["page"] = Str(Txt2) /\ q["limit"] = Str(Txt999) /\ d = 10)
                    => /\ outcome.ok
                       /\ outcome.val.page = NumberVal(IntNum(2))
                       /\ outcome.val.limit = NumberVal(IntNum(10))
               /\ outcome.ok =>
                    /\ q["page"] = Undefined => outcome.val.page = NumberVal(IntNum(1))
                    /\ q["page"] = Str(Txt2) => outcome.val.page = NumberVal(IntNum(2))
                    /\ q["limit"] = Str(Txt999) => outcome.val.limit = NumberVal(IntNum(d))
                    /\ q["limit"] = Undefined => outcome.val.limit = NumberVal(IntNum(d))
                    /\ outcome.val.sortField = Str(TxtCreatedAt)
                    /\ outcome.val.sortOrder = Str(TxtDesc)
                    /\ RestAbsent(outcome.val)

\* normalizeOrderQueryParams({page: "2", limit: "999"}, 10) returned
C7_Witness ==
    /\ Returned("normalizeOrderQueryParams")
    /\ call.args[1] = [EmptyQuery(OrderFields) EXCEPT
                          !["page"] = Str(Txt2), !["limit"] = Str(Txt999)]
    /\ call.args[2] = 10
    /\ outcome.ok
    /\ outcome.val.limit = NumberVal(IntNum(10))

IsNormalizerCall ==
    Returned("normalizeOrderQueryParams") \/ Returned("normalizeCustomerQueryParams")

\* C8 (as stated): an absent sortOrder yields "desc", "asc" and "desc" are
\* accepted, and every other present value makes parseSortOrder and both
\* parameter-set normalizers fail with the invalid-parameter error.
C8_SortOrderExact ==
    /\ Returned("parseSortOrder") =>
          LET v == call.args[1]
          IN  IF v.kind = "undefined" THEN outcome = Ok(Str(TxtDesc))
              ELSE IF ValueOf(v) \in {TxtAsc, TxtDesc} THEN outcome = Ok(v)
              ELSE outcome = BadRequest(MsgSortOrder)
    /\ (IsNormalizerCall /\ call.args[1]["sortOrder"].kind = "string"
            /\ ValueOf(call.args[1]["sortOrder"]) \notin {TxtAsc, TxtDesc})
          => ~outcome.ok /\ outcome.class = "BadRequestError"

\* C8 (amended): an absent or empty sortOrder yields "desc", "asc" and
\* "desc" are accepted, and every other present non-empty value makes
\* parseSortOrder and both parameter-set normalizers fail with the
\* invalid-parameter error.
C8_SortOrderExactUnlessEmpty ==
    /\ Returned("parseSortOrder") =>
          LET v == call.args[1]
          IN  IF v.kind = "undefined" \/ ValueOf(v) = <<>>
              THEN outcome = Ok(Str(TxtDesc))
              ELSE IF ValueOf(v) \in {TxtAsc, TxtDesc} THEN outcome = Ok(v)
              ELSE outcome = BadRequest(MsgSortOrder)
    /\ IsNormalizerCall =>
          LET v == call.args[1]["sortOrder"]
          IN  /\ (v.kind = "string" /\ ValueOf(v) \notin {TxtAsc, TxtDesc, <<>>})
                    => ~outcome.ok /\ outcome.class = "BadRequestError"
              /\ (outcome.ok /\ (v.kind = "undefined" \/ v = Str(<<>>)))
                    => outcome.val.sortOrder = Str(TxtDesc)
              /\ (outcome.ok /\ v.kind = "string" /\ ValueOf(v) \in {TxtAsc, TxtDesc})
                    => outcome.val.sortOrder = v

\* normalizeOrderQueryParams({sortOrder: "up"}, 10) failed
C8_Witness ==
    /\ Returned("normalizeOrderQueryParams")
    /\ call.args[1] = [EmptyQuery(OrderFields) EXCEPT !["sortOrder"] = Str(TxtUp)]
    /\ outcome = BadRequest(MsgSortOrder)

IsIntegerAtLeastOne(v) ==
    /\ v.kind = "number"
    /\ NumberIsInteger(ValueOf(v))
    /\ IntegerValue(ValueOf(v)) >= 1

\* C9: every record returned by a parameter-set normalizer called with
\* defaultLimit >= 1 has an integer page >= 1, an integer limit with
\* 1 <= limit <= defaultLimit, and sortOrder "asc" or "desc".
C9_NormalizedRanges ==
    (IsNormalizerCall /\ outcome.ok /\ call.args[2] >= 1)
        => /\ IsIntegerAtLeastOne(outcome.val.page)
           /\ IsIntegerAtLeastOne(outcome.val.limit)
           /\ IntegerValue(ValueOf(outcome.val.limit)) <= call.args[2]
           /\ outcome.val.sortOrder \in {Str(TxtAsc), Str(TxtDesc)}

\* a record with a requested page, a requested limit below the cap, and asc
C9_Witness ==
    /\ Returned("normalizeCustomerQueryParams")
    /\ call.args[1]["page"] = Str(Txt2)
    /\ call.args[1]["limit"] = Str(Txt5)
    /\ call.args[2] = 10
    /\ outcome.ok
    /\ outcome.val.page = NumberVal(IntNum(2))
    /\ outcome.val.limit = NumberVal(IntNum(5))

SearchOutput ==
    IF IsNormalizerCall THEN outcome.val.search ELSE outcome.val
ProducesSearch ==
    (IsNormalizerCall \/ Returned("sanitizeSearch")) /\ outcome.ok
        /\ IsDefined(SearchOutput)

\* C10 (as stated): the search field of a normalized record, if present, is
\* non-empty after trimming and has no character outside the allow-list.
C10_SearchWithinAllowList ==
    ProducesSearch
        => /\ Trim(ValueOf(SearchOutput)) # <<>>
           /\ AllIn(ValueOf(SearchOutput), SearchAllowed)

\* C10 (amended): the search field of a normalized record, if present, is
\* non-empty after trimming, and its only characters outside the allow-list
\* are backslashes, each one standing directly before a dot or a plus.
C10_SearchWithinAllowListOrEscape ==
    ProducesSearch
        => LET t == ValueOf(SearchOutput)
           IN  /\ Trim(t) # <<>>
               /\ \A i \in 1..Len(t) :
                      \/ t[i] \in SearchAllowed
                      \/ t[i] = "\\" /\ i < Len(t) /\ t[i + 1] \in {".", "+"}

\* the search "a.b" came back escaped
C10_Witness ==
    /\ Returned("normalizeOrderQueryParams")
    /\ call.args[1]["search"] = Str(TxtDotted)
    /\ outcome.ok
    /\ outcome.val.search = Str(<<"a", "\\", ".", "b">>)

\* the single value a raw field supplies, if any
Supplies(v) == v.kind = "string" \/ (v.kind = "array" /\ Len(v.items) = 1)

\* C11 (as stated): in every normalized record sortField is a non-empty
\* string, equal to the supplied value when one is present and to
\* "createdAt" otherwise, the empty string and the empty array included.
C11_SortFieldNonEmpty ==
    (IsNormalizerCall /\ outcome.ok)
        => LET v == call.args[1]["sortField"]
           IN  /\ outcome.val.sortField.kind = "string"
               /\ ValueOf(outcome.val.sortField) # <<>>
               /\ IF Supplies(v)
                  THEN outcome.val.sortField = Str(TextOf(v))
                  ELSE outcome.val.sortField = Str(TxtCreatedAt)

\* C11 (amended): in every normalized record sortField is a string, equal
\* to the supplied value when one is present -- the empty string is kept
\* as it is, so sortField is non-empty unless the empty string was
\* supplied -- and to "createdAt" when the field is absent or an empty
\* array.
C11_SortFieldSuppliedOrDefault ==
    (IsNormalizerCall /\ outcome.ok)
        => LET v == call.args[1]["sortField"]
           IN  /\ outcome.val.sortField.kind = "string"
               /\ IF Supplies(v)
                  THEN outcome.val.sortField = Str(TextOf(v))
                  ELSE outcome.val.sortField = Str(TxtCreatedAt)
               /\ (Supplies(v) /\ TextOf(v) = <<>>)
                    <=> ValueOf(outcome.val.sortField) = <<>>

\* normalizeCustomerQueryParams({sortField: ""}, 10) kept the empty string
C11_Witness ==
    /\ Returned("normalizeCustomerQueryParams")
    /\ call.args[1] = [EmptyQuery(CustomerFields) EXCEPT !["sortField"] = Str(TxtEmpty)]
    /\ outcome.ok
    /\ outcome.val.sortField = Str(<<>>)

\* the fields of an order document as the orders pipeline returns it
\* (the $group stage of getOrders): what an orders allow-list can hold
OrderDocumentFields ==
    {<<"_","i","d">>, <<"o","r","d","e","r","N","u","m","b","e","r">>,
     <<"s","t","a","t","u","s">>, TxtTotalAmount, <<"p","r","o","d","u","c","t","s">>,
     <<"c","u","s","t","o","m","e","r">>, TxtCreatedAt}

\* the customers half of C12: both customers controllers sort by one key,
\* and it is in the allow-list
CustomersSortKeyAllowListed ==
    ((Returned("getCustomers") \/ Returned("getCustomersDuplicate")) /\ outcome.ok)
        => /\ Cardinality(DOMAIN outcome.val.sort) = 1
           /\ DOMAIN outcome.val.sort \subseteq AllowedCustomerSortFields

\* the orders half of C12: getOrders sorts by one key, a field of the order
OrdersSortKeyAllowListed ==
    (Returned("getOrders") /\ outcome.ok)
        => /\ Cardinality(DOMAIN outcome.val.sort) = 1
           /\ DOMAIN outcome.val.sort \subseteq OrderDocumentFields

\* C12: for orders and for customers the key of the sort specification
\* handed to the database is always in the resource's fixed allow-list; a
\* requested sortField outside it is replaced by the resource default.
C12_SortKeyAllowListed ==
    CustomersSortKeyAllowListed /\ OrdersSortKeyAllowListed

\* the fields of the normalizer called, in evaluation order
CalledFields ==
    IF call.fn = "normalizeOrderQueryParams" THEN OrderFields ELSE CustomerFields

\* the outcome of the normalizer called for the bag that holds field f of
\* the raw bag alone
AloneOutcome(f) ==
    LET alone == [EmptyQuery(CalledFields) EXCEPT ![f] = call.args[1][f]]
    IN  IF call.fn = "normalizeOrderQueryParams"
        THEN normalizeOrderQueryParams(alone, call.args[2])
        ELSE normalizeCustomerQueryParams(alone, call.args[2])

\* the positions of the fields that are invalid on their own; an absent
\* field is valid, as the call with the empty bag shows
InvalidFields ==
    {i \in 1..Len(CalledFields) :
        /\ IsDefined(call.args[1][CalledFields[i]])
        /\ ~AloneOutcome(CalledFields[i]).ok}

\* C14: the normalizers are fail-fast and all-or-nothing: the call raises
\* the error of the first invalid field in evaluation order (page, limit,
\* sortField, sortOrder, then the rest in declaration order) and nothing
\* else; only a bag without invalid fields yields a record, and that
\* record has every field of the resource.
C14_FirstInvalidFieldFails ==
    IsNormalizerCall
        => LET invalid == InvalidFields
           IN  IF invalid = {}
               THEN /\ outcome.ok
                    /\ DOMAIN outcome.val = {CalledFields[i] : i \in 1..Len(CalledFields)}
               ELSE LET first == CHOOSE i \in invalid : \A j \in invalid : i <= j
                    IN  /\ ~outcome.ok
                        /\ outcome = AloneOutcome(CalledFields[first])

\* {page: "0", sortOrder: "up"}: two invalid fields with different errors,
\* the error of page is the one raised
C14_Witness ==
    /\ IsNormalizerCall
    /\ call.args[1]["page"] = Str(Txt0)
    /\ call.args[1]["sortOrder"] = Str(TxtUp)
    /\ Cardinality(InvalidFields) = 2
    /\ ~outcome.ok
    /\ outcome.message = MsgPositiveInt
    /\ outcome.message # MsgSortOrder

\* the From/To pairs of each resource: filter field, From field, To field
OrderRangePairs ==
    {<<"totalAmount", "totalAmountFrom", "totalAmountTo">>,
     <<"createdAt", "orderDateFrom", "orderDateTo">>}
CustomerRangePairs ==
    {<<"createdAt", "registrationDateFrom", "registrationDateTo">>,
     <<"lastOrderDate", "lastOrderDateFrom", "lastOrderDateTo">>,
     <<"totalAmount", "totalAmountFrom", "totalAmountTo">>,
     <<"orderCount", "orderCountFrom", "orderCountTo">>}

\* filters holds the range of the pair exactly as far as record p has bounds
RangeFollowsBounds(filters, p, pair) ==
    /\ pair[1] \in DOMAIN filters <=> (IsDefined(p[pair[2]]) \/ IsDefined(p[pair[3]]))
    /\ pair[1] \in DOMAIN filters
         => /\ DOMAIN filters[pair[1]] \subseteq {"$gte", "$lte"}
            /\ "$gte" \in DOMAIN filters[pair[1]] <=> IsDefined(p[pair[2]])
            /\ "$lte" \in DOMAIN filters[pair[1]] <=> IsDefined(p[pair[3]])
            /\ IsDefined(p[pair[2]]) => filters[pair[1]]["$gte"] = p[pair[2]]

\* C15: for each From/To pair of each resource the filter has the field
\* iff a bound of the pair is present in the normalized record, with a gte
\* bound exactly when From is present and an lte bound exactly when To is
\* present, a numeric bound 0 included.
C15_RangeIffBoundPresent ==
    /\ (Returned("getOrders") /\ outcome.ok)
          => \A pair \in OrderRangePairs :
                RangeFollowsBounds(outcome.val.filters,
                    normalizeOrderQueryParams(call.args[1], 10).val, pair)
    /\ ((Returned("getCustomers") \/ Returned("getCustomersDuplicate")) /\ outcome.ok)
          => \A pair \in CustomerRangePairs :
                RangeFollowsBounds(outcome.val.filters,
                    normalizeCustomerQueryParams(ValueOf(sanitizeObject(Obj(call.args[1]))), 10).val,
                    pair)

\* getOrders({totalAmountTo: "0"}): the filter is totalAmount <= 0, one-sided
C15_Witness ==
    /\ Returned("getOrders")
    /\ call.args[1] = [EmptyQuery(OrderFields) EXCEPT !["totalAmountTo"] = Str(Txt0)]
    /\ outcome.ok
    /\ outcome.val.filters = Prop("totalAmount", Prop("$lte", NumberVal(IntNum(0))))

\* a raw status made only of letters, digits, underscore and hyphen
MadeOfStatusChars(v) == Supplies(v) /\ AllIn(TextOf(v), StatusAllowed)

\* C19: in getOrders a present status that is not made only of letters,
\* digits, underscore and hyphen ends in a BadRequest error and no query;
\* a status that reaches the filter is a plain string under the single key
\* status, and the rest of the filter is what the request gives without
\* its status.
C19_StatusValidated ==
    Returned("getOrders")
        => LET q == call.args[1]
               withoutStatus == [q EXCEPT !["status"] = Undefined]
           IN  /\ (IsDefined(q["status"]) /\ q["status"] # Arr(<<>>)
                      /\ ~MadeOfStatusChars(q["status"]))
                     => (~outcome.ok /\ outcome.class = "BadRequestError")
               /\ outcome.ok
                     => LET filters == outcome.val.filters
                        IN  /\ "status" \in DOMAIN filters
                                 => /\ MadeOfStatusChars(q["status"])
                                    /\ filters["status"] = Str(TextOf(q["status"]))
                            /\ [k \in DOMAIN filters \ {"status"} |-> filters[k]]
                                 = getOrders(withoutStatus).val.filters

\* getOrders({status: {$ne: "a"}}) is rejected
C19_Witness ==
    /\ Returned("getOrders")
    /\ call.args[1]["status"] = Obj(Prop("$ne", Str(TxtA)))
    /\ outcome = Throw("BadRequestError", MsgStatus)

\* a term of word characters and white space is a number exactly when it
\* is made of decimal digits (the model has no exponent or radix forms)
DenotesNumber(t) == t # <<>> /\ AllIn(t, Digits)

\* the conditions of a disjunction that test the given field
ConditionsOn(conditions, field) ==
    {i \in 1..Len(conditions) : field \in DOMAIN conditions[i]}

\* C18: getOrders rejects a present search term holding a non-word,
\* non-space character with BadRequest, before any query; for any other
\* present term the disjunction holds the case-insensitive product-title
\* match, and an exact orderNumber match iff the term parses as a number.
C18_OrderSearchDisjunction ==
    Returned("getOrders")
        => LET s == call.args[1]["search"]
           IN  /\ (Supplies(s) /\ SomeOutside(TextOf(s), WordChars \cup WhiteSpace))
                     => (~outcome.ok /\ outcome.class = "BadRequestError")
               /\ (outcome.ok /\ Supplies(s) /\ Trim(TextOf(s)) # <<>>)
                     => /\ "$or" \in DOMAIN outcome.val.filters
                        /\ LET conditions == outcome.val.filters["$or"]
                               term == Trim(TextOf(s))
                           IN  /\ ConditionsOn(conditions, "products.title") = {1}
                               /\ conditions[1]["products.title"].flags = "i"
                               /\ ConditionsOn(conditions, "orderNumber") # {}
                                     <=> DenotesNumber(term)
                               /\ \A i \in ConditionsOn(conditions, "orderNumber") :
                                     conditions[i]["orderNumber"] = IntNum(DecValue(term))
               /\ (outcome.ok /\ ~(Supplies(s) /\ Trim(TextOf(s)) # <<>>))
                     => "$or" \notin DOMAIN outcome.val.filters

\* getOrders({search: "12"}): title match or orderNumber = 12
C18_Witness ==
    /\ Returned("getOrders")
    /\ call.args[1]["search"] = Str(Txt12)
    /\ outcome.ok
    /\ Len(outcome.val.filters["$or"]) = 2
    /\ outcome.val.filters["$or"][2] = Prop("orderNumber", IntNum(12))

IsCustomersCall == Returned("getCustomers") \/ Returned("getCustomersDuplicate")

\* the record the customers controllers work on
CustomerParams == normalizeCustomerQueryParams(ValueOf(sanitizeObject(Obj(call.args[1]))), 10)

\* a raw search that is absent, or empty after trimming
SearchAbsent(v) ==
    ~IsDefined(v) \/ v = Arr(<<>>) \/ (Supplies(v) /\ Trim(TextOf(v)) = <<>>)

\* an otherwise valid request without search proceeds, without disjunction
ProceedsWithoutSearch ==
    (SearchAbsent(call.args[1]["search"]) /\ CustomerParams.ok)
        => (outcome.ok /\ "$or" \notin DOMAIN outcome.val.filters)

\* the part_001 half of C20
DuplicateSearchOptional == Returned("getCustomersDuplicate") => ProceedsWithoutSearch

\* C20: search is optional for the customers list: in both customers
\* controllers a request whose search is absent, or empty after trimming,
\* is not rejected and proceeds with a filter without search disjunction.
C20_SearchOptional == IsCustomersCall => ProceedsWithoutSearch

\* the customers.ts outcome next to that of part_001 for the same request
DuplicateOutcome == getCustomersDuplicate(call.args[1])

\* a present search term longer than 50 characters
SearchTooLong ==
    /\ CustomerParams.ok
    /\ Truthy(CustomerParams.val.search)
    /\ Len(ValueOf(CustomerParams.val.search)) > MaxCustomerSearchLength

\* the stated difference, for an over-long term
DiffersOnTooLongSearch ==
    (Returned("getCustomers") /\ SearchTooLong)
        => /\ outcome = Throw("NotFoundError", MsgCustomerSearch)
           /\ DuplicateOutcome.ok
           /\ "$or" \notin DOMAIN DuplicateOutcome.val.filters

\* the stated agreement, for a present term within the policy
AgreesOnSearchInPolicy ==
    (Returned("getCustomers") /\ CustomerParams.ok
        /\ Truthy(CustomerParams.val.search) /\ ~SearchTooLong)
        => (outcome.ok /\ outcome = DuplicateOutcome)

\* C17: the two customers controllers differ only for an over-long search
\* term (customers.ts: NotFound and no query; part_001: query without
\* search disjunction); for every other request they have the same outcome.
C17_DifferOnlyOnTooLongSearch ==
    /\ DiffersOnTooLongSearch
    /\ (Returned("getCustomers") /\ ~SearchTooLong) => outcome = DuplicateOutcome

\* a dangerous key somewhere in a value, at any depth
RECURSIVE HasDangerousKey(_)
HasDangerousKey(v) ==
    CASE v.kind = "object" ->
            \E k \in DOMAIN ValueOf(v) :
                IsDangerousKey(k) \/ HasDangerousKey(ValueOf(v)[k])
      [] v.kind = "list" -> \E i \in 1..Len(v.items) : HasDangerousKey(v.items[i])
      [] OTHER -> FALSE

\* out is in without its dangerous keys: every other key, every array
\* position and every value that is not an object is as it was
RECURSIVE Preserved(_, _)
Preserved(in, out) ==
    CASE in.kind = "object" ->
            /\ out.kind = "object"
            /\ DOMAIN ValueOf(out) = {k \in DOMAIN ValueOf(in) : ~IsDangerousKey(k)}
            /\ \A k \in DOMAIN ValueOf(out) : Preserved(ValueOf(in)[k], ValueOf(out)[k])
      [] in.kind = "list" ->
            /\ out.kind = "list"
            /\ Len(out.items) = Len(in.items)
            /\ \A i \in 1..Len(in.items) : Preserved(in.items[i], out.items[i])
      [] OTHER -> out = in

\* the request of a customers call without the dangerous keys of its bag
WithoutDangerousKeys ==
    [k \in {key \in DOMAIN call.args[1] : ~IsDangerousKey(key)} |-> call.args[1][k]]

PageOf(p) == IntegerValue(ValueOf(p.page))
LimitOf(p) == IntegerValue(ValueOf(p.limit))

\* the window of a list response: from page and limit, never negative, and
\* no more records than limit
WindowOf(page, limit) ==
    /\ page >= 1
    /\ limit >= 1
    /\ outcome.val.skip = (page - 1) * limit
    /\ outcome.val.skip >= 0
    /\ outcome.val.limit = limit
    /\ records <= limit

\* C16: for every list endpoint (getOrders, both getCustomers,
\* getOrdersCurrentUser) the pagination window is skip = (page - 1) * limit
\* and take = limit with page >= 1 and limit >= 1: skip is never negative
\* and a response never has more than limit records.
C16_PaginationWindow ==
    /\ (Returned("getOrders") /\ outcome.ok)
          => LET p == normalizeOrderQueryParams(call.args[1], 10).val
             IN  WindowOf(PageOf(p), LimitOf(p))
    /\ (IsCustomersCall /\ outcome.ok)
          => WindowOf(PageOf(CustomerParams.val), LimitOf(CustomerParams.val))
    /\ (Returned("getOrdersCurrentUser") /\ outcome.ok)
          => WindowOf(outcome.val.currentPage, outcome.val.limit)
    /\ ~outcome.ok => records = 0

\* getOrders({page: "2", limit: "5"}) with MaxMatching rows: rows 6 to 10,
\* each of an order of its own
C16_Witness ==
    /\ Returned("getOrders")
    /\ call.args[1]["page"] = Str(Txt2)
    /\ call.args[1]["limit"] = Str(Txt5)
    /\ outcome.ok
    /\ outcome.val.skip = 5
    /\ records = 5

\* the search term of a customers list request as the client sent it,
\* trimmed, when the sanitizer accepts it
SentTerm == Trim(TextOf(call.args[1]["search"]))
TermAccepted ==
    /\ Supplies(call.args[1]["search"])
    /\ SentTerm # <<>>
    /\ AllIn(SentTerm, SearchAllowed)
    /\ CustomerParams.ok

\* the pattern of the name condition of a customers filter
NamePattern(filters) == filters["$or"][1]["name"].source

\* C21: for every search term the sanitizer accepts, the pattern the
\* customers list embeds in its regular expression is the trimmed term
\* with each metacharacter escaped exactly once, and the 50-character
\* limit is applied to the term as the client sent it.
C21_PatternMatchesTermLiterally ==
    (Returned("getCustomersDuplicate") /\ TermAccepted)
        => IF Len(SentTerm) <= MaxCustomerSearchLength
           THEN /\ outcome.ok
                /\ "$or" \in DOMAIN outcome.val.filters
                /\ NamePattern(outcome.val.filters) = EscapeRegexMeta(SentTerm)
           ELSE outcome.ok => "$or" \notin DOMAIN outcome.val.filters

\* the request of an uploadFile call carried a file that was staged, and
\* the handler has finished
UploadFinished == Returned("uploadFile") /\ file.present

\* C22: after uploadFile finishes for a request that carries a staged
\* file, whatever the outcome, the staged temporary file no longer exists,
\* and on every error outcome no re-encoded output file is left behind.
C22_StagedFileRemoved ==
    UploadFinished
        => /\ tempPath \notin disk
           /\ ~ outcome.ok => disk = {}

\* what holds of the code: once the handler is in its try block, the
\* staged file is removed and an error leaves no output file
UploadTried == UploadFinished /\ UploadRejection(file).ok
StagedFileRemovedAfterTry ==
    UploadTried
        => /\ tempPath \notin disk
           /\ ~ outcome.ok => disk = {}

\* the order a getOrderCurrentUserByNumber call asks for, when there is one
AskedNumber == OrderNumberOf(call.args[1])
AskedOrderExists == AskedNumber \in DOMAIN call.args[3]
OwnedByAnother ==
    /\ AskedOrderExists
    /\ call.args[3][AskedNumber] \in UserIds \ {call.args[2]}

\* the orders collection without the asked order
WithoutAsked ==
    [n \in DOMAIN call.args[3] \ {AskedNumber} |-> call.args[3][n]]

\* C23: getOrderCurrentUserByNumber answers 200 with an order only when
\* the order's customer is the authenticated user; for an order of another
\* user the outcome is the NotFound error of a number no order has, the
\* same outcome the call has when that order is not in the collection.
C23_OnlyOwnOrderReturned ==
    Returned("getOrderCurrentUserByNumber")
        => /\ outcome.ok
                => /\ outcome.val.status = 200
                   /\ AskedOrderExists
                   /\ outcome.val.order.customer = call.args[2]
                   /\ outcome.val.order.orderNumber = AskedNumber
           /\ OwnedByAnother
                => /\ outcome = Throw("NotFoundError", MsgOrderNotFound)
                   /\ outcome = getOrderCurrentUserByNumber(
                                    call.args[1], call.args[2],
                                    WithoutAsked, FALSE)

\* an order of another user was asked for and refused
C23_Witness ==
    /\ Returned("getOrderCurrentUserByNumber")
    /\ OwnedByAnother
    /\ ~ outcome.ok
    /\ \E n \in DOMAIN call.args[3] : call.args[3][n] = call.args[2]

====
